---- MODULE Spec2Model ----
(***************************************************************************)
(* Model of the RIG ingestion scripts: the graph store statements issued   *)
(* by ingest/ifcjson_to_neo4j.py, ingest/ifcjson_edges.py and              *)
(* ingest/ifc_to_neo4j.py (Cypher MERGE / MATCH / SET semantics on a       *)
(* property graph without uniqueness constraints), and the placement walk  *)
(* of ingest/extract_elevations.py and ingest/ifc_to_neo4j.py.             *)
(***************************************************************************)
EXTENDS Bags, FiniteSets, Integers, Sequences, TLC

\* ------------------------------------------------------------------------
\* Bounds of the model
\* ------------------------------------------------------------------------
\* number of ingestion runs executed one after the other
MaxRuns == 3
\* input values (names, years, elevations) range over 1..MaxVal
MaxVal == 2
\* Z offsets of placements range over 0..MaxZ
MaxZ == 1
\* per value of v, the number of ifcJSON files with a dangling reference
MaxDang == 1

\* ------------------------------------------------------------------------
\* Optional values: Python None / Cypher null is the empty tuple
\* ------------------------------------------------------------------------
None == <<>>
Some(v) == <<v>>

\* Cypher coalesce(a, b)
coalesce(a, b) == IF a # None THEN a ELSE b

\* ------------------------------------------------------------------------
\* Type names are sequences of CamelCase words, so that str.startswith is
\* computed and not tabulated: "IfcFlowSegment" is <<"Ifc","Flow","Segment">>
\* ------------------------------------------------------------------------
StartsWith(t, p) == Len(t) >= Len(p) /\ SubSeq(t, 1, Len(p)) = p

IfcEntity == <<"Ifc", "Entity">>
IfcProject == <<"Ifc", "Project">>
IfcSite == <<"Ifc", "Site">>
IfcBuilding == <<"Ifc", "Building">>
IfcBuildingStorey == <<"Ifc", "Building", "Storey">>
IfcSpace == <<"Ifc", "Space">>
IfcSystem == <<"Ifc", "System">>
IfcDistributionSystem == <<"Ifc", "Distribution", "System">>
IfcDistributionElement == <<"Ifc", "Distribution", "Element">>
IfcDistributionPort == <<"Ifc", "Distribution", "Port">>
IfcFlowSegment == <<"Ifc", "Flow", "Segment">>
IfcElement == <<"Ifc", "Element">>
IfcPump == <<"Ifc", "Pump">>
Unknown == <<"Unknown">>
RelContained == <<"Ifc", "Rel", "Contained", "In", "Spatial", "Structure">>
RelAggregates == <<"Ifc", "Rel", "Aggregates">>
RelServices == <<"Ifc", "Rel", "Services", "Buildings">>
RelAssignsToGroup == <<"Ifc", "Rel", "Assigns", "To", "Group">>
RelPortToElement == <<"Ifc", "Rel", "Connects", "Port", "To", "Element">>
RelConnectsPorts == <<"Ifc", "Rel", "Connects", "Ports">>
RelConnectsElements == <<"Ifc", "Rel", "Connects", "Elements">>

SPATIAL_TYPES == {IfcProject, IfcSite, IfcBuilding, IfcBuildingStorey, IfcSpace}

cmms_label(t) ==
    IF t \in SPATIAL_TYPES THEN t
    ELSE IF StartsWith(t, <<"Ifc", "System">>) THEN IfcSystem
    ELSE IF StartsWith(t, <<"Ifc", "Flow">>) \/ StartsWith(t, <<"Ifc", "Distribution">>)
         THEN IfcDistributionElement
    ELSE IF StartsWith(t, <<"Ifc", "Element">>) THEN IfcElement
    ELSE t

\* ------------------------------------------------------------------------
\* The graph store.  A node is [globalId, labels, props]; props is a map
\* whose domain holds exactly the keys with a non-null value (a Cypher
\* property set to null is removed).  Nodes are kept in creation order and
\* are never deleted.  Edges are a bag of [src, dst, type] over node
\* positions: the store itself allows parallel relationships of one type.
\* ------------------------------------------------------------------------
EmptyGraph == [nodes |-> <<>>, edges |-> EmptyBag]

EmptyProps == [k \in {} |-> None]

\* n.k as an optional value
Prop(n, k) == IF k \in DOMAIN n.props THEN Some(n.props[k]) ELSE None

\* SET n.k = upd[k] for every key of upd; a null value removes the key
SetAll(props, upd) ==
    LET removed == {k \in DOMAIN upd : upd[k] = None}
        written == {k \in DOMAIN upd : upd[k] # None}
    IN  [k \in (DOMAIN props \ removed) \cup written |->
            IF k \in written THEN upd[k][1] ELSE props[k]]

\* MATCH (n:labels {globalId:$id})
MatchNodes(G, labels, id) ==
    {i \in 1..Len(G.nodes) : G.nodes[i].globalId = id /\ labels \subseteq G.nodes[i].labels}

\* apply Upd to the props of every node of the set m
UpdateNodes(G, m, Upd(_)) ==
    [G EXCEPT !.nodes = [i \in 1..Len(G.nodes) |->
        IF i \in m THEN [G.nodes[i] EXCEPT !.props = Upd(G.nodes[i])] ELSE G.nodes[i]]]

CreateNode(G, labels, id, props) ==
    [G EXCEPT !.nodes = Append(G.nodes, [globalId |-> id, labels |-> labels, props |-> props])]

\* MERGE (n:labels {globalId:$id}) ON CREATE SET create ON MATCH SET OnMatch
\* followed by the unconditional SET clause Always, which acts on the nodes
\* the MERGE bound (the created one, or every matched one)
MergeNode(G, labels, id, create, OnMatch(_), Always(_)) ==
    LET m == MatchNodes(G, labels, id)
    IN  IF m = {}
        THEN LET G1 == CreateNode(G, labels, id, create)
             IN  UpdateNodes(G1, {Len(G1.nodes)}, Always)
        ELSE UpdateNodes(UpdateNodes(G, m, OnMatch), m, Always)

Rel(a, b, t) == [src |-> a, dst |-> b, type |-> t]

\* MERGE (a)-[:t]->(b) for bound nodes: created only when no such
\* relationship exists between the two nodes
MergeRelBetween(G, pairs, t) ==
    LET missing == {e \in {Rel(p[1], p[2], t) : p \in pairs} : ~BagIn(e, G.edges)}
    IN  [G EXCEPT !.edges = G.edges (+) SetToBag(missing)]

\* MATCH (a {globalId:$a}),(b {globalId:$b}) CREATE (a)-[:t]->(b)
CreateRel(G, a, b, reltype) ==
    LET pairs == MatchNodes(G, {}, a) \X MatchNodes(G, {}, b)
    IN  [G EXCEPT !.edges = G.edges (+) SetToBag({Rel(p[1], p[2], reltype) : p \in pairs})]

\* MATCH (a {globalId:$a}),(b {globalId:$b}) MERGE (a)-[:reltype]->(b)
merge_rel(G, a, b, reltype) ==
    MergeRelBetween(G, MatchNodes(G, {}, a) \X MatchNodes(G, {}, b), reltype)

\* ------------------------------------------------------------------------
\* Store statements of ingest/ifcjson_to_neo4j.py
\* ------------------------------------------------------------------------
\* CREATE (n:IfcEntity {globalId:$id}) SET ...  SET n += $props_flat
JsonNodeCreate(G, s) ==
    CreateNode(G, {IfcEntity}, s.id,
        SetAll(SetAll(EmptyProps,
               [name |-> Some(s.name), type |-> Some(s.ifc_type), source |-> Some(s.source),
                psets_json |-> Some(s.psets_json), attrs_json |-> Some(s.attrs_json),
                flowDirection |-> s.flow_dir]), s.props_flat))

\* MERGE (n:IfcEntity {globalId:$id}) ON CREATE SET ... ON MATCH SET ...
\* SET n += $props_flat
JsonNodeMerge(G, s) ==
    MergeNode(G, {IfcEntity}, s.id,
        SetAll(EmptyProps,
               [name |-> Some(s.name), type |-> Some(s.ifc_type), source |-> Some(s.source),
                psets_json |-> Some(s.psets_json), attrs_json |-> Some(s.attrs_json),
                flowDirection |-> coalesce(s.flow_dir, None)]),
        LAMBDA n : SetAll(n.props,
               [name |-> coalesce(Prop(n, "name"), Some(s.name)),
                type |-> Some(s.ifc_type),
                source |-> coalesce(Prop(n, "source"), Some(s.source)),
                psets_json |-> coalesce(Prop(n, "psets_json"), Some(s.psets_json)),
                attrs_json |-> coalesce(Prop(n, "attrs_json"), Some(s.attrs_json)),
                flowDirection |-> coalesce(Prop(n, "flowDirection"), s.flow_dir)]),
        LAMBDA n : SetAll(n.props, s.props_flat))

\* MATCH (n:IfcEntity {globalId:$id}) CALL apoc.create.addLabels(n, $labels)
AddLabels(G, s) ==
    LET m == MatchNodes(G, {IfcEntity}, s.id)
    IN  [G EXCEPT !.nodes = [i \in 1..Len(G.nodes) |->
            IF i \in m THEN [G.nodes[i] EXCEPT !.labels = @ \cup s.labels] ELSE G.nodes[i]]]

\* toUpper and CONTAINS over the flow directions of the model
ToUpper(v) == CASE v = "source" -> "SOURCE" [] v = "sink" -> "SINK" [] OTHER -> v

Contains(v, sub) ==
    CASE v = "SOURCE" -> sub = "SOURCE"
      [] v = "SINK" -> sub = "SINK"
      [] v = "SOURCEANDSINK" -> sub \in {"SOURCE", "SINK"}
      [] OTHER -> FALSE

EdgesOfType(G, t) == {e \in BagToSet(G.edges) : e.type = t}

HasLabel(G, i, l) == l \in G.nodes[i].labels

\* (e1)-[:HAS_PORT]->(p1:IfcDistributionPort)-[:PORT_CONNECTED_TO]->
\* (p2:IfcDistributionPort)<-[:HAS_PORT]-(e2): the two HAS_PORT relationships
\* of one match are distinct relationships
PortPaths(G) ==
    {q \in EdgesOfType(G, "HAS_PORT") \X EdgesOfType(G, "PORT_CONNECTED_TO") \X EdgesOfType(G, "HAS_PORT") :
        /\ q[1].dst = q[2].src
        /\ q[3].dst = q[2].dst
        /\ HasLabel(G, q[2].src, IfcDistributionPort)
        /\ HasLabel(G, q[2].dst, IfcDistributionPort)
        /\ (q[1] # q[3] \/ CopiesIn(q[1], G.edges) >= 2)}

\* MATCH <port path> MERGE (e1)-[:CONNECTED_TO]->(e2)
DeriveConnected(G) ==
    MergeRelBetween(G, {<<q[1].src, q[3].src>> : q \in PortPaths(G)}, "CONNECTED_TO")

FlowHas(G, i, sub) ==
    LET fd == coalesce(Prop(G.nodes[i], "flowDirection"), Some(""))
    IN  Contains(ToUpper(fd[1]), sub)

\* MATCH <port path> WHERE p is a SOURCE and q a SINK MERGE (src)-[:FEEDS]->(dst)
DeriveFeeds(G) ==
    MergeRelBetween(G,
        {<<q[1].src, q[3].src>> : q \in {r \in PortPaths(G) :
            FlowHas(G, r[2].src, "SOURCE") /\ FlowHas(G, r[2].dst, "SINK")}},
        "FEEDS")

\* ------------------------------------------------------------------------
\* Helpers of ingest/ifcjson_to_neo4j.py over ifcJSON records.  A reference
\* value is [kind |-> "none"], [kind |-> "str", id], [kind |-> "dict", ref],
\* [kind |-> "list", items] or [kind |-> "num"], a number other than 0.
\* ------------------------------------------------------------------------
NoneV == [kind |-> "none"]
StrV(i) == [kind |-> "str", id |-> i]
DictV(i) == [kind |-> "dict", ref |-> i]
ListV(xs) == [kind |-> "list", items |-> xs]
NumV == [kind |-> "num"]

\* an exception that leaves the call
Raised == [kind |-> "raise"]

\* Python truth value of a reference value
Truthy(x) ==
    CASE x.kind = "none" -> FALSE
      [] x.kind = "list" -> x.items # <<>>
      [] OTHER -> TRUE

\* obj.get(k)
JGet(obj, k) == IF k \in DOMAIN obj THEN obj[k] ELSE NoneV

\* obj.get(a) or obj.get(b)
JGet2(obj, a, b) == IF Truthy(JGet(obj, a)) THEN JGet(obj, a) ELSE JGet(obj, b)

RECURSIVE ref_id(_)
ref_id(x) ==
    CASE x.kind = "none" -> None
      [] x.kind = "str" -> Some(x.id)
      [] x.kind = "dict" -> Some(x.ref)
      [] x.kind = "list" -> IF x.items # <<>> THEN ref_id(x.items[1]) ELSE None

\* kids = re if isinstance(re, list) else [re]
AsList(x) == IF x.kind = "list" THEN x.items ELSE <<x>>

get_name(obj) == IF "Name" \in DOMAIN obj THEN obj.Name ELSE ""

\* the first of type, class, ifcType that is set, else schema, else "Unknown"
get_type(obj) ==
    IF "type" \in DOMAIN obj THEN obj.type
    ELSE IF "class" \in DOMAIN obj THEN obj.class
    ELSE IF "ifcType" \in DOMAIN obj THEN obj.ifcType
    ELSE IF "schema" \in DOMAIN obj THEN obj.schema
    ELSE Unknown

\* the direct-map shape: {'InstallYear': 2016, ...}
extract_psets(obj) == IF "psets" \in DOMAIN obj THEN obj.psets ELSE EmptyProps

keep_keys ==
    {"Pset_Manufacturer.Manufacturer", "Pset_Manufacturer.ModelReference",
     "Pset_Asset.SerialNumber", "Pset_Asset.InstallationDate", "InstallYear",
     "Pset_MemberCommon.Span", "Pset_MemberCommon.IsExternal",
     "Pset_MemberCommon.Reference", "Pset_MemberCommon.LoadBearing"}

\* k.replace(".", "_").replace(" ", "_")
FlatKey(k) ==
    CASE k = "Pset_Manufacturer.Manufacturer" -> "Pset_Manufacturer_Manufacturer"
      [] k = "Pset_Manufacturer.ModelReference" -> "Pset_Manufacturer_ModelReference"
      [] k = "Pset_Asset.SerialNumber" -> "Pset_Asset_SerialNumber"
      [] k = "Pset_Asset.InstallationDate" -> "Pset_Asset_InstallationDate"
      [] k = "Pset_MemberCommon.Span" -> "Pset_MemberCommon_Span"
      [] k = "Pset_MemberCommon.IsExternal" -> "Pset_MemberCommon_IsExternal"
      [] k = "Pset_MemberCommon.Reference" -> "Pset_MemberCommon_Reference"
      [] k = "Pset_MemberCommon.LoadBearing" -> "Pset_MemberCommon_LoadBearing"
      [] OTHER -> k

select_flat_props(ps) ==
    LET kept == DOMAIN ps \cap keep_keys
    IN  [sk \in {FlatKey(k) : k \in kept} |-> ps[CHOOSE k \in kept : FlatKey(k) = sk]]

\* json.dumps(x): an injective encoding of the value
JsonDumps(x) == <<"json", x>>

\* ------------------------------------------------------------------------
\* Placement walk.  A placement is [oid, loc, parent]: oid is the optional
\* id / GlobalId / globalId field of the record, loc the optional list of
\* coerced coordinates of RelativePlacement.Location (each entry a number or
\* None), parent the PlacementRelTo reference value.  A record table maps
\* keys to placements.
\* ------------------------------------------------------------------------
HopLimit == 64

\* IfcResolver.deref: a table lookup for a string or a {"ref": ..} mapping,
\* absent for None, for a dangling key and for any other shape
deref(tbl, x) ==
    CASE x.kind = "str" -> IF x.id \in DOMAIN tbl THEN Some(tbl[x.id]) ELSE None
      [] x.kind = "dict" -> IF x.ref \in DOMAIN tbl THEN Some(tbl[x.ref]) ELSE None
      [] OTHER -> None

\* IfcResolver.coords_from_point, list variant: the entries that coerced to
\* a number, in order, or None when there is none
coords_from_point(loc) ==
    LET vals == SelectSeq(loc, LAMBDA v : v # None)
    IN  IF vals # <<>> THEN Some([i \in 1..Len(vals) |-> vals[i][1]]) ELSE None

\* state of the loop of a walk that starts at placement lp
WalkStart(lp) == [cur |-> Some(lp), steps |-> 0, z_total |-> 0, seen |-> {}, brk |-> FALSE]

\* a loop condition without the step bound
JsonWalkGuardNoBound(st) == st.cur # None /\ ~st.brk

\* while isinstance(cur, dict) and steps < 64   (extract_elevations.py)
JsonWalkGuard(st) == st.cur # None /\ ~st.brk /\ st.steps < HopLimit

\* a loop body that counts a hop only when the placement carries an
\* identifier
JsonWalkBodyCountsIds(tbl, st) ==
    LET cur == st.cur[1]
        recurs == cur.oid # None /\ cur.oid[1] \in st.seen
        seen2 == IF cur.oid # None THEN st.seen \cup {cur.oid[1]} ELSE st.seen
        coords == IF cur.loc # None THEN coords_from_point(cur.loc[1]) ELSE None
        z2 == IF coords # None /\ Len(coords[1]) >= 3
              THEN st.z_total + coords[1][3] ELSE st.z_total
        parent == deref(tbl, cur.parent)
    IN  IF recurs THEN [st EXCEPT !.brk = TRUE]
        ELSE IF parent = None
             THEN [st EXCEPT !.seen = seen2, !.z_total = z2, !.brk = TRUE]
             ELSE [st EXCEPT !.seen = seen2, !.z_total = z2, !.cur = parent,
                             !.steps = IF cur.oid # None THEN st.steps + 1 ELSE st.steps]

\* one iteration of the loop of IfcResolver.z_from_local_placement
JsonWalkBody(tbl, st) ==
    LET cur == st.cur[1]
        recurs == cur.oid # None /\ cur.oid[1] \in st.seen
        seen2 == IF cur.oid # None THEN st.seen \cup {cur.oid[1]} ELSE st.seen
        coords == IF cur.loc # None THEN coords_from_point(cur.loc[1]) ELSE None
        z2 == IF coords # None /\ Len(coords[1]) >= 3
              THEN st.z_total + coords[1][3] ELSE st.z_total
        parent == deref(tbl, cur.parent)
    IN  IF recurs THEN [st EXCEPT !.brk = TRUE]
        ELSE IF parent = None
             THEN [st EXCEPT !.seen = seen2, !.z_total = z2, !.brk = TRUE]
             ELSE [st EXCEPT !.seen = seen2, !.z_total = z2, !.cur = parent,
                             !.steps = st.steps + 1]

\* a loop that gives up one hop early
IfcWalkGuardShort(st) == st.cur # None /\ st.steps < HopLimit - 1

\* while cur and steps < 64   (ifc_to_neo4j.py)
IfcWalkGuard(st) == st.cur # None /\ st.steps < HopLimit

\* one iteration of the loop of ifc_to_neo4j.z_from_local_placement; the
\* PlacementRelTo attribute is another placement object or None
IfcWalkBody(tbl, st) ==
    LET cur == st.cur[1]
        coords == IF cur.loc # None THEN cur.loc[1] ELSE <<>>
        z2 == IF Len(coords) >= 3 /\ coords[3] # None
              THEN st.z_total + coords[3][1] ELSE st.z_total
    IN  [st EXCEPT !.z_total = z2,
                   !.cur = IF cur.parent.kind = "str" THEN Some(tbl[cur.parent.id]) ELSE None,
                   !.steps = st.steps + 1]

RECURSIVE IfcWalk(_, _)
IfcWalk(tbl, st) == IF IfcWalkGuard(st) THEN IfcWalk(tbl, IfcWalkBody(tbl, st)) ELSE st

\* ifc_to_neo4j.z_from_local_placement
ifc_z_from_local_placement(tbl, lp) == Some(IfcWalk(tbl, WalkStart(lp)).z_total)

\* ifc_to_neo4j.z_of: elem.ObjectPlacement is None or a local placement
z_of(tbl, elem) ==
    IF elem.ObjectPlacement = None THEN None
    ELSE ifc_z_from_local_placement(tbl, tbl[elem.ObjectPlacement[1]])

RECURSIVE JsonWalk(_, _)
JsonWalk(tbl, st) == IF JsonWalkGuard(st) THEN JsonWalk(tbl, JsonWalkBody(tbl, st)) ELSE st

\* IfcResolver.z_from_local_placement: z_total if steps >= 0 else None
z_from_local_placement(tbl, lp) ==
    LET st == JsonWalk(tbl, WalkStart(lp))
    IN  IF st.steps >= 0 THEN Some(st.z_total) ELSE None

\* ------------------------------------------------------------------------
\* Store statements of ingest/ifc_to_neo4j.py
\* ------------------------------------------------------------------------
Same(n) == n.props

\* MERGE (st:IfcEntity:IfcBuildingStorey {globalId:$id})
\* ON CREATE SET st.name=$name, st.type='IfcBuildingStorey', st.source=$src
\* SET st.elev = $elev
StoreyMerge(G, s) ==
    MergeNode(G, {IfcEntity, IfcBuildingStorey}, s.id,
        SetAll(EmptyProps, [name |-> Some(s.name), type |-> Some(IfcBuildingStorey),
                            source |-> Some(s.src)]),
        Same,
        LAMBDA n : SetAll(n.props, [elev |-> s.elev]))

\* MERGE (n:IfcEntity:{t}:{cmms_label(t)} {globalId:$id})
\* ON CREATE SET n.name=$name, n.type=$type, n.source=$src
\* ON MATCH  SET n.type=$type, n.source=coalesce(n.source,$src)
\* SET n.z = $z     (only when z is not None)
ElemMerge(G, s) ==
    MergeNode(G, {IfcEntity, s.type, cmms_label(s.type)}, s.id,
        SetAll(EmptyProps, [name |-> Some(s.name), type |-> Some(s.type),
                            source |-> Some(s.src)]),
        LAMBDA n : SetAll(n.props, [type |-> Some(s.type),
                                    source |-> coalesce(Prop(n, "source"), Some(s.src))]),
        LAMBDA n : IF s.z # None THEN SetAll(n.props, [z |-> s.z]) ELSE n.props)

\* MATCH (n:labels {globalId:$id})
\* SET n.psets_json = coalesce(n.psets_json, $psets_json)  SET n += $flat
PsetSet(G, s) ==
    UpdateNodes(G, MatchNodes(G, s.labels, s.id),
        LAMBDA n : SetAll(SetAll(n.props,
                            [psets_json |-> coalesce(Prop(n, "psets_json"), s.psets_json)]),
                          s.flat))

\* MERGE (x:IfcEntity:IfcSpace {globalId:$id})
\* ON CREATE SET x.name=$name, x.type='IfcSpace', x.source=$src
\* SET x.longName = $long
SpaceMerge(G, s) ==
    MergeNode(G, {IfcEntity, IfcSpace}, s.id,
        SetAll(EmptyProps, [name |-> Some(s.name), type |-> Some(IfcSpace),
                            source |-> Some(s.src)]),
        Same,
        LAMBDA n : SetAll(n.props, [longName |-> s.long]))

\* MERGE (sys:IfcEntity:IfcSystem {globalId:$id})
\* ON CREATE SET sys.name=$name, sys.type='IfcSystem', sys.source=$src
SysMerge(G, s) ==
    MergeNode(G, {IfcEntity, IfcSystem}, s.id,
        SetAll(EmptyProps, [name |-> Some(s.name), type |-> Some(IfcSystem),
                            source |-> Some(s.src)]),
        Same, Same)

\* f"{pset}.{k}"
DotKey(pset, k) ==
    CASE pset = "Pset_Asset" /\ k = "SerialNumber" -> "Pset_Asset.SerialNumber"
      [] pset = "Pset_Asset" /\ k = "InstallationDate" -> "Pset_Asset.InstallationDate"
      [] pset = "Pset_Manufacturer" /\ k = "Manufacturer" -> "Pset_Manufacturer.Manufacturer"

flatten_psets(ps) ==
    LET pairs == UNION {{<<p, k>> : k \in DOMAIN ps[p]} : p \in DOMAIN ps}
    IN  [key \in {DotKey(q[1], q[2]) : q \in pairs} |->
            LET q == CHOOSE q \in pairs : DotKey(q[1], q[2]) = key IN ps[q[1]][q[2]]]

\* getattr(o, "Name", None) or ""
name_of(o) == IF o.Name # None THEN o.Name[1] ELSE ""

\* ------------------------------------------------------------------------
\* Sequences of statements
\* ------------------------------------------------------------------------
RECURSIVE Flatten(_)
Flatten(ss) == IF ss = <<>> THEN <<>> ELSE Head(ss) \o Flatten(Tail(ss))

\* the statements F(x) of every x of xs, in order
ForEach(xs, F(_)) == Flatten([i \in 1..Len(xs) |-> F(xs[i])])

MergeRelStmt(x, y, t) == [op |-> "merge_rel", phase |-> "rels", a |-> x, b |-> y, reltype |-> t]

\* the edge statements of one relationship record: `if a and b: merge`
\* for every kid of the list
KidStmts(parent, kids, t, kidIsSource) ==
    ForEach(kids, LAMBDA k :
        IF parent # None /\ ref_id(k) # None
        THEN IF kidIsSource THEN <<MergeRelStmt(ref_id(k)[1], parent[1], t)>>
             ELSE <<MergeRelStmt(parent[1], ref_id(k)[1], t)>>
        ELSE <<>>)

PairStmts(x, y, t) ==
    IF x # None /\ y # None THEN <<MergeRelStmt(x[1], y[1], t)>> ELSE <<>>

\* ------------------------------------------------------------------------
\* ingest/ifcjson_to_neo4j.py main: the statements issued for the record
\* table inst (a sequence of <<guid, obj>>), in order
\* ------------------------------------------------------------------------
AttrsOf(obj) == IF "attributes" \in DOMAIN obj THEN obj.attributes ELSE EmptyProps

\* attrs.get("FlowDirection") or obj.get("FlowDirection")
FlowDirOf(obj) ==
    IF "FlowDirection" \in DOMAIN AttrsOf(obj) THEN Some(AttrsOf(obj).FlowDirection)
    ELSE IF "FlowDirection" \in DOMAIN obj THEN Some(obj.FlowDirection)
    ELSE None

\* Pass 1, one record: the node MERGE, then the label addition
JsonNodeStmts(rec, source) ==
    LET guid == rec[1]
        obj == rec[2]
        ifc_type == get_type(obj)
        psets == extract_psets(obj)
    IN  << [op |-> "json_node_merge", phase |-> "nodes", id |-> guid, name |-> get_name(obj),
            ifc_type |-> ifc_type, source |-> source, psets_json |-> JsonDumps(psets),
            attrs_json |-> JsonDumps(AttrsOf(obj)), flow_dir |-> FlowDirOf(obj),
            props_flat |-> select_flat_props(psets)],
           [op |-> "add_labels", phase |-> "nodes", id |-> guid,
            labels |-> {ifc_type, cmms_label(ifc_type)}] >>

\* Pass 2, one record: the edge of an IfcRel* record, then the two derived
\* statements, which are issued once per IfcRel* record
JsonRelStmts(rec) ==
    LET obj == rec[2]
        t == get_type(obj)
        rs == JGet2(obj, "RelatingStructure", "relatingStructure")
        re == JGet2(obj, "RelatedElements", "relatedElements")
        ro == JGet2(obj, "RelatedObjects", "relatedObjects")
        rb == JGet2(obj, "RelatedBuildings", "relatedBuildings")
        rg == JGet2(obj, "RelatingGroup", "relatingGroup")
        rso == JGet2(obj, "RelatingObject", "relatingObject")
        edge ==
            IF t = RelContained /\ Truthy(rs) /\ Truthy(re)
            THEN KidStmts(ref_id(rs), AsList(re), "CONTAINS", FALSE)
            ELSE IF t = RelAggregates /\ Truthy(rso) /\ Truthy(ro)
            THEN KidStmts(ref_id(rso), AsList(ro), "AGGREGATES", FALSE)
            ELSE IF t = RelServices /\ Truthy(rb)
            THEN KidStmts(ref_id(JGet2(obj, "RelatingSystem", "relatingSystem")),
                          AsList(rb), "SERVICES", FALSE)
            ELSE IF t = RelAssignsToGroup /\ Truthy(rg) /\ Truthy(ro)
            THEN KidStmts(ref_id(rg), AsList(ro), "ASSIGNED_TO_SYSTEM", TRUE)
            ELSE IF t = RelPortToElement
            THEN PairStmts(ref_id(JGet2(obj, "RelatedElement", "relatedElement")),
                           ref_id(JGet2(obj, "RelatingPort", "relatingPort")), "HAS_PORT")
            ELSE IF t = RelConnectsPorts
            THEN PairStmts(ref_id(JGet2(obj, "RelatingPort", "relatingPort")),
                           ref_id(JGet2(obj, "RelatedPort", "relatedPort")), "PORT_CONNECTED_TO")
            ELSE IF t = RelConnectsElements
            THEN PairStmts(ref_id(JGet2(obj, "RelatingElement", "relatingElement")),
                           ref_id(JGet2(obj, "RelatedElement", "relatedElement")), "CONNECTED_TO")
            ELSE <<>>
    IN  IF ~StartsWith(t, <<"Ifc", "Rel">>) THEN <<>>
        ELSE edge \o << [op |-> "derive_connected", phase |-> "rels"],
                        [op |-> "derive_feeds", phase |-> "rels"] >>

JsonProgram(inst, source) ==
    ForEach(inst, LAMBDA rec : JsonNodeStmts(rec, source)) \o ForEach(inst, JsonRelStmts)

\* ------------------------------------------------------------------------
\* ingest/ifcjson_edges.py main
\* ------------------------------------------------------------------------
RECURSIVE FirstIn(_, _)
FirstIn(d, keys) ==
    IF keys = <<>> THEN None
    ELSE IF Head(keys) \in DOMAIN d THEN Some(d[Head(keys)])
    ELSE FirstIn(d, Tail(keys))

\* the value is a mapping of the file, not a null, string, list or number
IsMapping(a) == "kind" \notin DOMAIN a

\* d.get("attributes") or {}: the field when it is there and truthy (an
\* empty mapping and {} are the same)
AttrsOrEmpty(d) ==
    IF "attributes" \in DOMAIN d /\ (IsMapping(d.attributes) \/ Truthy(d.attributes))
    THEN d.attributes ELSE EmptyProps

\* `k in a` for a string a (k occurs in it) or a list a (k is an element)
KeyIn(k, a) ==
    IF a.kind = "str" THEN a.id = k \/ (a.id = "see Elevation" /\ k = "Elevation")
    ELSE \E i \in 1..Len(a.items) : a.items[i] = StrV(k)

RECURSIVE InAttrs(_, _)
\* for k in keys: if k in a: return a[k]; then return None.  On a number
\* `k in a` raises TypeError; on a string or a list that has k, a[k] does
InAttrs(a, keys) ==
    IF keys = <<>> THEN NoneV
    ELSE IF IsMapping(a)
    THEN (IF Head(keys) \in DOMAIN a THEN a[Head(keys)] ELSE InAttrs(a, Tail(keys)))
    ELSE IF a.kind = "num" THEN Raised
    ELSE IF KeyIn(Head(keys), a) THEN Raised
    ELSE InAttrs(a, Tail(keys))

\* g(obj, *keys): top level first, then attributes{}
g(obj, keys) ==
    IF FirstIn(obj, keys) # None THEN FirstIn(obj, keys)[1]
    ELSE InAttrs(AttrsOrEmpty(obj), keys)

\* an accessor that looks into attributes{} before the top level
FirstAttributesFirst(d, keys) ==
    IF FirstIn(AttrsOf(d), keys) # None THEN FirstIn(AttrsOf(d), keys)[1]
    ELSE IF FirstIn(d, keys) # None THEN FirstIn(d, keys)[1]
    ELSE NoneV

\* extract_elevations.first(d, *keys): top level first, then attributes{}
first(d, keys) ==
    IF FirstIn(d, keys) # None THEN FirstIn(d, keys)[1]
    ELSE InAttrs(AttrsOrEmpty(d), keys)

\* obj.get("type") or obj.get("class") or obj.get("schema") or ""
edges_type(obj) ==
    IF "type" \in DOMAIN obj THEN obj.type
    ELSE IF "class" \in DOMAIN obj THEN obj.class
    ELSE IF "schema" \in DOMAIN obj THEN obj.schema
    ELSE <<>>

\* x if isinstance(x, list) else [x] if x else []
AsListOrEmpty(x) == IF x.kind = "list" THEN x.items ELSE IF Truthy(x) THEN <<x>> ELSE <<>>

\* the trailing-underscore spelling of a type name
Underscored(t) == t \o <<"_">>

EdgesRelStmts(rec) ==
    LET obj == rec[2]
        t == edges_type(obj)
        port == ref_id(g(obj, <<"RelatingPort", "relatingPort">>))
    IN  IF ~StartsWith(t, <<"Ifc", "Rel">>) THEN <<>>
        ELSE IF t \in {RelContained, Underscored(RelContained)}
        THEN KidStmts(ref_id(g(obj, <<"RelatingStructure", "relatingStructure",
                                      "RelatingSpatialStructure", "relatingSpatialStructure">>)),
                      AsListOrEmpty(g(obj, <<"RelatedElements", "relatedElements">>)),
                      "CONTAINS", FALSE)
        ELSE IF t = RelAggregates
        THEN KidStmts(ref_id(g(obj, <<"RelatingObject", "relatingObject">>)),
                      AsListOrEmpty(g(obj, <<"RelatedObjects", "relatedObjects">>)),
                      "AGGREGATES", FALSE)
        ELSE IF t = RelServices
        THEN KidStmts(ref_id(g(obj, <<"RelatingSystem", "relatingSystem">>)),
                      AsListOrEmpty(g(obj, <<"RelatedBuildings", "relatedBuildings">>)),
                      "SERVICES", FALSE)
        ELSE IF t = RelAssignsToGroup
        THEN KidStmts(ref_id(g(obj, <<"RelatingGroup", "relatingGroup">>)),
                      AsListOrEmpty(g(obj, <<"RelatedObjects", "relatedObjects">>)),
                      "ASSIGNED_TO_SYSTEM", TRUE)
        ELSE IF t \in {RelPortToElement, Underscored(RelPortToElement)}
        THEN PairStmts(ref_id(g(obj, <<"RelatedElement", "relatedElement">>)), port, "HAS_PORT")
        ELSE IF t \in {RelConnectsPorts, Underscored(RelConnectsPorts)}
        THEN LET p2 == ref_id(g(obj, <<"RelatedPort", "relatedPort">>))
             IN  PairStmts(port, p2, "PORT_CONNECTED_TO") \o PairStmts(p2, port, "PORT_CONNECTED_TO")
        ELSE IF t \in {RelConnectsElements, Underscored(RelConnectsElements)}
        THEN LET a == ref_id(g(obj, <<"RelatingElement", "relatingElement">>))
                 b == ref_id(g(obj, <<"RelatedElement", "relatedElement">>))
             IN  PairStmts(a, b, "CONNECTED_TO") \o PairStmts(b, a, "CONNECTED_TO")
        ELSE <<>>

EdgesProgram(inst) == ForEach(inst, EdgesRelStmts)

\* ------------------------------------------------------------------------
\* ingest/ifc_to_neo4j.py main.  An IFC file is [entities, placements,
\* contained, aggregates, groups, portElem, ports, connects]; an entity
\* carries the set of classes it is an instance of (is_a and supertypes).
\* ------------------------------------------------------------------------
by_type(ifc, T) == SelectSeq(ifc.entities, LAMBDA e : T \in e.classes)

IfcStoreyStmts(st, src) ==
    << [op |-> "storey_merge", phase |-> "nodes", id |-> st.GlobalId[1],
        name |-> name_of(st), src |-> src, elev |-> st.Elevation] >>

IfcElemStmts(ifc, e, src) ==
    IF e.GlobalId = None THEN <<>>
    ELSE << [op |-> "elem_merge", phase |-> "nodes", id |-> e.GlobalId[1], name |-> name_of(e),
             type |-> e.is_a, src |-> src, z |-> z_of(ifc.placements, e)] >>
         \o (IF e.psets # EmptyProps
             THEN << [op |-> "pset_set", phase |-> "nodes", labels |-> {}, id |-> e.GlobalId[1],
                      psets_json |-> Some(JsonDumps(e.psets)), flat |-> flatten_psets(e.psets)] >>
             ELSE <<>>)

\* json.dumps(ps) is a non-empty string, so `if flat or pjson` holds
IfcSpaceStmts(sp, src) ==
    IF sp.GlobalId = None THEN <<>>
    ELSE << [op |-> "space_merge", phase |-> "nodes", id |-> sp.GlobalId[1], name |-> name_of(sp),
             src |-> src, long |-> sp.LongName],
            [op |-> "pset_set", phase |-> "nodes", labels |-> {IfcSpace}, id |-> sp.GlobalId[1],
             psets_json |-> Some(JsonDumps(sp.psets)), flat |-> flatten_psets(sp.psets)] >>

GidStmts(parent, objs, t, objIsSource) ==
    ForEach(objs, LAMBDA o :
        IF parent # None /\ o.GlobalId # None
        THEN IF objIsSource THEN <<MergeRelStmt(o.GlobalId[1], parent[1], t)>>
             ELSE <<MergeRelStmt(parent[1], o.GlobalId[1], t)>>
        ELSE <<>>)

\* "ensure system node exists", then the ASSIGNED_TO_SYSTEM edges
IfcGroupStmts(rel, src) ==
    LET gid == IF rel.RelatingGroup # None THEN rel.RelatingGroup[1].GlobalId ELSE None
    IN  IF gid = None THEN <<>>
        ELSE << [op |-> "sys_merge", phase |-> "rels", id |-> gid[1],
                 name |-> name_of(rel.RelatingGroup[1]), src |-> src] >>
             \o GidStmts(gid, rel.RelatedObjects, "ASSIGNED_TO_SYSTEM", TRUE)

BothWays(x, y, t) ==
    IF x # None /\ y # None
    THEN <<MergeRelStmt(x[1], y[1], t), MergeRelStmt(y[1], x[1], t)>>
    ELSE <<>>

IfcProgram(ifc, src) ==
    ForEach(by_type(ifc, IfcBuildingStorey), LAMBDA st : IfcStoreyStmts(st, src))
    \o ForEach(by_type(ifc, IfcElement) \o by_type(ifc, IfcDistributionElement)
               \o by_type(ifc, IfcSystem), LAMBDA e : IfcElemStmts(ifc, e, src))
    \o ForEach(by_type(ifc, IfcSpace), LAMBDA sp : IfcSpaceStmts(sp, src))
    \o ForEach(ifc.contained, LAMBDA rel :
           GidStmts(rel.RelatingStructure.GlobalId, rel.RelatedElements, "CONTAINS", FALSE))
    \o ForEach(ifc.aggregates, LAMBDA rel :
           GidStmts(rel.RelatingObject.GlobalId, rel.RelatedObjects, "AGGREGATES", FALSE))
    \o ForEach(ifc.groups, LAMBDA rel : IfcGroupStmts(rel, src))
    \o ForEach(ifc.portElem, LAMBDA rel :
           PairStmts(rel.RelatedElement.GlobalId, rel.RelatingPort.GlobalId, "HAS_PORT"))
    \o ForEach(ifc.ports, LAMBDA rel :
           BothWays(rel.RelatingPort.GlobalId, rel.RelatedPort.GlobalId, "PORT_CONNECTED_TO"))
    \o ForEach(ifc.connects, LAMBDA rel :
           BothWays(rel.RelatingElement.GlobalId, rel.RelatedElement.GlobalId, "CONNECTED_TO"))

\* ------------------------------------------------------------------------
\* Input files of the model
\* ------------------------------------------------------------------------
NameOf(v) == CASE v = 1 -> "Room 101" [] v = 2 -> "Room101-Renamed" [] OTHER -> "Room"

\* the relationship record whose first reference dangles: none for
\* dang = 0, else one that moves through the file with v and dang
DangIndex(v, dang) == IF dang = 0 THEN 0 ELSE ((3 * v + dang - 1) % 8) + 1

\* An ifcJSON record table over a pump e1, a segment e2, two ports, a space,
\* a storey, a system and eight relationship records.  v selects the values
\* (0: name absent, InstallYear null); the first reference of relationship
\* record DangIndex(v, dang) names "zz", which no record defines.
JsonFile(v, dang) ==
    LET D(k, id) == IF DangIndex(v, dang) = k THEN "zz" ELSE id
    IN  << <<"e1", IF v = 0 THEN [type |-> IfcPump, psets |-> [InstallYear |-> None]]
                   ELSE [type |-> IfcPump, Name |-> NameOf(v),
                         psets |-> [InstallYear |-> Some(2000 + v)]]>>,
           <<"e2", [type |-> IfcFlowSegment, Name |-> "Duct"]>>,
           <<"p1", [type |-> IfcDistributionPort, attributes |-> [FlowDirection |-> "SOURCE"]]>>,
           <<"p2", [class |-> IfcDistributionPort, FlowDirection |-> "sink"]>>,
           <<"sp", IF v = 0 THEN [type |-> IfcSpace] ELSE [type |-> IfcSpace, Name |-> NameOf(v)]>>,
           <<"st", [type |-> IfcBuildingStorey, Name |-> "Level 1"]>>,
           <<"sy", [type |-> IfcDistributionSystem, Name |-> "Supply"]>>,
           <<"r1", [type |-> RelPortToElement, RelatingPort |-> StrV(D(1, "p1")),
                    RelatedElement |-> StrV("e1")]>>,
           <<"r2", [type |-> RelPortToElement, RelatingPort |-> DictV(D(2, "p2")),
                    RelatedElement |-> DictV("e2")]>>,
           <<"r3", [type |-> RelConnectsPorts, RelatingPort |-> StrV(D(3, "p1")),
                    RelatedPort |-> StrV("p2")]>>,
           <<"r4", [type |-> RelContained, RelatingStructure |-> StrV(D(4, "sp")),
                    RelatedElements |-> ListV(<<StrV("e1"), DictV("e2")>>)]>>,
           <<"r5", [type |-> RelAssignsToGroup, RelatingGroup |-> StrV(D(5, "sy")),
                    RelatedObjects |-> ListV(<<StrV("e1")>>)]>>,
           <<"r6", [type |-> RelAggregates, RelatingObject |-> StrV(D(6, "st")),
                    RelatedObjects |-> StrV("sp")]>>,
           <<"r7", [type |-> RelConnectsElements, RelatingElement |-> StrV(D(7, "e1")),
                    RelatedElement |-> StrV("e2")]>>,
           <<"r8", [type |-> RelServices, RelatingSystem |-> StrV(D(8, "sy")),
                    RelatedBuildings |-> ListV(<<StrV("st")>>)]>> >>

Entity(gid, t, classes, name) ==
    [GlobalId |-> Some(gid), is_a |-> t, classes |-> classes, Name |-> name,
     Elevation |-> None, ObjectPlacement |-> None, psets |-> EmptyProps, LongName |-> None]

Gid(id) == [GlobalId |-> Some(id), Name |-> None]

\* An IFC file over the same identifiers.  v selects the values: the storey
\* elevation, the placement chain and SerialNumber of e1, the LongName of
\* the space (all absent for v = 0), and the class of the system (IfcSystem
\* for v = 0, its subtype IfcDistributionSystem otherwise).  The group gr is
\* an IfcGroup that is no IfcSystem, so it is not among the elements.
IfcFile(v) ==
    LET sysType == IF v = 0 THEN IfcSystem ELSE IfcDistributionSystem
    IN  [entities |->
            << [Entity("st", IfcBuildingStorey, {IfcBuildingStorey}, Some("Level 1"))
                  EXCEPT !.Elevation = IF v = 0 THEN None ELSE Some(v)],
               [Entity("e1", IfcPump, {IfcPump, IfcElement, IfcDistributionElement}, Some("Pump"))
                  EXCEPT !.ObjectPlacement = IF v = 0 THEN None ELSE Some("A"),
                         !.psets = IF v = 0 THEN EmptyProps
                                   ELSE [Pset_Asset |-> [SerialNumber |-> Some(v)]]],
               Entity("e2", IfcFlowSegment, {IfcFlowSegment, IfcElement, IfcDistributionElement}, None),
               Entity("sy", sysType, {sysType, IfcSystem}, Some("Supply")),
               [Entity("sp", IfcSpace, {IfcSpace}, Some("101"))
                  EXCEPT !.LongName = IF v = 0 THEN None ELSE Some(NameOf(v))] >>,
         placements |->
            [A |-> [oid |-> None, loc |-> Some(<<Some(0), Some(0), Some(v)>>), parent |-> StrV("B")],
             B |-> [oid |-> None, loc |-> Some(<<Some(5), Some(0), Some(1)>>), parent |-> NoneV]],
         contained |-> << [RelatingStructure |-> Gid("st"), RelatedElements |-> <<Gid("e1"), Gid("e2")>>] >>,
         aggregates |-> << [RelatingObject |-> Gid("st"), RelatedObjects |-> <<Gid("sp")>>] >>,
         groups |-> << [RelatingGroup |-> Some([GlobalId |-> Some("sy"), Name |-> Some("Supply")]),
                        RelatedObjects |-> <<Gid("e1")>>],
                       [RelatingGroup |-> Some([GlobalId |-> Some("gr"), Name |-> Some("Zone")]),
                        RelatedObjects |-> <<Gid("e2")>>] >>,
         portElem |-> << [RelatingPort |-> Gid("p1"), RelatedElement |-> Gid("e1")] >>,
         ports |-> << [RelatingPort |-> Gid("p1"), RelatedPort |-> Gid("p2")] >>,
         connects |-> << [RelatingElement |-> Gid("e1"), RelatedElement |-> Gid("e2")] >>]

\* the runs the model chooses from
RunChoices ==
    {[kind |-> "json", v |-> v, dang |-> d] : v \in 0..MaxVal, d \in 0..MaxDang}
    \cup {[kind |-> "edges", v |-> 0, dang |-> d] : d \in 0..MaxDang}
    \cup {[kind |-> "ifc", v |-> v, dang |-> 0] : v \in 0..MaxVal}

NoRun == [kind |-> "none", v |-> 0, dang |-> 0]

\* the statements of a run, in the order the script issues them
Program(r) ==
    CASE r.kind = "json" -> JsonProgram(JsonFile(r.v, r.dang), "json_file")
      [] r.kind = "edges" -> EdgesProgram(JsonFile(r.v, r.dang))
      [] r.kind = "ifc" -> IfcProgram(IfcFile(r.v), "ifc_file")
      [] OTHER -> <<>>

\* ------------------------------------------------------------------------
\* Zone assignment: ingest/link_in_space_from_ifc.py,
\* link_in_space_from_two_ifc.py and link_in_space_by_placement.py.
\* Lengths are integers, in tenths of the unit of the file.  A point is
\* <<x, y, z>>, a bounding volume <<x0, y0, z0, x1, y1, z1>>.
\* ------------------------------------------------------------------------
MaxZones == 2
MaxElems == 2

\* contains(aabb, p, tol_xy=0.10, tol_z=1.0)
tol_xy == 1
tol_z == 10

\* best_d2 = 1e99: larger than every squared distance
Far == 1000000000

Abs(x) == IF x < 0 THEN -x ELSE x

\* ((x0+x1)/2.0, (y0+y1)/2.0, (z0+z1)/2.0); the volumes of the inputs have
\* even sums, so the halves are exact
center(aabb) ==
    <<(aabb[1] + aabb[4]) \div 2, (aabb[2] + aabb[5]) \div 2, (aabb[3] + aabb[6]) \div 2>>

contains(aabb, p) ==
    /\ aabb[1] - tol_xy <= p[1] /\ p[1] <= aabb[4] + tol_xy
    /\ aabb[2] - tol_xy <= p[2] /\ p[2] <= aabb[5] + tol_xy
    /\ aabb[3] - tol_z <= p[3] /\ p[3] <= aabb[6] + tol_z

\* (cx-p[0])**2 + (cy-p[1])**2 + (cz-p[2])**2
Dist2(c, p) ==
    (c[1] - p[1]) * (c[1] - p[1]) + (c[2] - p[2]) * (c[2] - p[2]) + (c[3] - p[3]) * (c[3] - p[3])

\* space_aabb: the spaces whose shape could be created, in file order
space_aabb(zones) == SelectSeq(zones, LAMBDA z : z.aabb # None)

RECURSIVE FirstContaining(_, _)
\* for sp_gid, aabb in space_aabb.items(): if contains(aabb, p): hit = sp_gid; break
FirstContaining(zs, p) ==
    IF zs = <<>> THEN None
    ELSE IF contains(Head(zs).aabb[1], p) THEN Some(Head(zs).gid)
    ELSE FirstContaining(Tail(zs), p)

RECURSIVE NearestCenterFrom(_, _, _, _)
\* a nearest-center loop in which a zone at the same distance replaces the
\* current best
NearestCenterFromLastWins(zs, p, best_d2, best_sp) ==
    IF zs = <<>> THEN best_sp
    ELSE LET d2 == Dist2(center(Head(zs).aabb[1]), p)
         IN  IF d2 <= best_d2 THEN NearestCenterFrom(Tail(zs), p, d2, Some(Head(zs).gid))
             ELSE NearestCenterFrom(Tail(zs), p, best_d2, best_sp)

\* the nearest-center loop: if d2 < best_d2: best_d2, best_sp = d2, sp_gid
NearestCenterFrom(zs, p, best_d2, best_sp) ==
    IF zs = <<>> THEN best_sp
    ELSE LET d2 == Dist2(center(Head(zs).aabb[1]), p)
         IN  IF d2 < best_d2 THEN NearestCenterFrom(Tail(zs), p, d2, Some(Head(zs).gid))
             ELSE NearestCenterFrom(Tail(zs), p, best_d2, best_sp)

\* an assigner that asks for the nearest center only
GeoHitNearestOnly(zs, p) == NearestCenterFrom(zs, p, Far, None)

\* the geometric tiers: containment, and `if not hit` the nearest center
GeoHit(zs, p) ==
    IF FirstContaining(zs, p) # None THEN FirstContaining(zs, p)
    ELSE NearestCenterFrom(zs, p, Far, None)

RECURSIVE Dedupe(_, _)
\* de-dupe by GUID: `if gid and gid not in seen: seen.add(gid); terms.append(e)`
Dedupe(cands, seen) ==
    IF cands = <<>> THEN <<>>
    ELSE IF Head(cands).gid # None /\ Head(cands).gid[1] \notin seen
    THEN <<Head(cands)>> \o Dedupe(Tail(cands), seen \cup {Head(cands).gid[1]})
    ELSE Dedupe(Tail(cands), seen)

\* MATCH (e {globalId:$e}),(sp:IfcSpace {globalId:$sp}) MERGE (e)-[:IN_SPACE]->(sp)
InSpaceStmt(e, sp, tier) ==
    [op |-> "in_space", phase |-> "rels", e |-> e, sp |-> sp, tier |-> tier]

InSpaceMerge(G, e, sp) ==
    MergeRelBetween(G, MatchNodes(G, {}, e) \X MatchNodes(G, {IfcSpace}, sp), "IN_SPACE")

\* link_in_space_from_ifc.py, one terminal: the container if it is a
\* space, else the geometric tiers
FromIfcStmts(zones, t) ==
    IF t.container # None /\ t.container[1].isSpace
    THEN <<InSpaceStmt(t.gid[1], t.container[1].gid, "container")>>
    ELSE IF t.origin = None \/ space_aabb(zones) = <<>> THEN <<>>
    ELSE LET hit == GeoHit(space_aabb(zones), t.origin[1])
         IN  IF hit # None THEN <<InSpaceStmt(t.gid[1], hit[1], "geometry")>> ELSE <<>>

FromIfcProgram(zones, cands) ==
    ForEach(Dedupe(cands, {}), LAMBDA t : FromIfcStmts(zones, t))

\* link_in_space_from_two_ifc.py, one terminal: the geometric tiers
TwoIfcStmts(zones, t) ==
    IF t.origin = None THEN <<>>
    ELSE LET hit == GeoHit(space_aabb(zones), t.origin[1])
         IN  IF hit # None THEN <<InSpaceStmt(t.gid[1], hit[1], "geometry")>> ELSE <<>>

\* `if not space_aabb: return` before any terminal is looked at
TwoIfcProgram(zones, cands) ==
    IF space_aabb(zones) = <<>> THEN <<>>
    ELSE ForEach(Dedupe(cands, {}), LAMBDA t : TwoIfcStmts(zones, t))

\* spaces_pts: the spaces that have a world origin, in file order
spaces_pts(zones) == SelectSeq(zones, LAMBDA z : z.origin # None)

\* terminals: the candidates that have a GlobalId and a world origin; no
\* de-duplication
terminals(cands) == SelectSeq(cands, LAMBDA e : e.gid # None /\ e.origin # None)

RECURSIVE NearestSpaceFrom(_, _, _, _, _, _)
\* a nearest_space without the Z gate
NearestSpaceFromAnyLevel(zs, pt, z_tol, xy_max, best_d2, best) ==
    IF zs = <<>> THEN best
    ELSE LET s == Head(zs).origin[1]
             dx == pt[1] - s[1]
             dy == pt[2] - s[2]
             d2 == dx * dx + dy * dy
         IN  IF xy_max > 0 /\ d2 > xy_max * xy_max
             THEN NearestSpaceFrom(Tail(zs), pt, z_tol, xy_max, best_d2, best)
             ELSE IF d2 < best_d2
             THEN NearestSpaceFrom(Tail(zs), pt, z_tol, xy_max, d2, Some(Head(zs).gid))
             ELSE NearestSpaceFrom(Tail(zs), pt, z_tol, xy_max, best_d2, best)

\* nearest_space(pt): the Z gate, the lateral cap, then the strict minimum
NearestSpaceFrom(zs, pt, z_tol, xy_max, best_d2, best) ==
    IF zs = <<>> THEN best
    ELSE LET s == Head(zs).origin[1]
             dx == pt[1] - s[1]
             dy == pt[2] - s[2]
             d2 == dx * dx + dy * dy
         IN  IF Abs(pt[3] - s[3]) > z_tol
             THEN NearestSpaceFrom(Tail(zs), pt, z_tol, xy_max, best_d2, best)
             ELSE IF xy_max > 0 /\ d2 > xy_max * xy_max
             THEN NearestSpaceFrom(Tail(zs), pt, z_tol, xy_max, best_d2, best)
             ELSE IF d2 < best_d2
             THEN NearestSpaceFrom(Tail(zs), pt, z_tol, xy_max, d2, Some(Head(zs).gid))
             ELSE NearestSpaceFrom(Tail(zs), pt, z_tol, xy_max, best_d2, best)

nearest_space(zs, pt, z_tol, xy_max) == NearestSpaceFrom(zs, pt, z_tol, xy_max, Far, None)

\* link_in_space_by_placement.py: links, then one MERGE per link
ByPlacementProgram(zones, cands, z_tol, xy_max) ==
    IF spaces_pts(zones) = <<>> \/ terminals(cands) = <<>> THEN <<>>
    ELSE ForEach(terminals(cands), LAMBDA t :
            LET sp == nearest_space(spaces_pts(zones), t.origin[1], z_tol, xy_max)
            IN  IF sp # None THEN <<InSpaceStmt(t.gid[1], sp[1], "placement")>> ELSE <<>>)

LinkProgram(r) ==
    CASE r.script = "from_ifc" -> FromIfcProgram(r.zones, r.elems)
      [] r.script = "from_two_ifc" -> TwoIfcProgram(r.zones, r.elems)
      [] r.script = "by_placement" -> ByPlacementProgram(r.zones, r.elems, r.z_tol, r.xy_max)

\* The spaces of the inputs: sp with a tall or a flat volume, s2 with a
\* small volume beside it or with a high volume that overlaps the edge of
\* sp and a placement origin above and away from it, s3 far away with a
\* volume and no placement, or with a placement beyond the default lateral
\* cap and no shape
Zone(gid, aabb, origin) == [gid |-> gid, aabb |-> aabb, origin |-> origin]

ZoneChoices ==
    { Zone("sp", Some(<<0, 0, 0, 100, 100, 30>>), Some(<<0, 0, 0>>)),
      Zone("sp", Some(<<0, 0, 0, 100, 100, 0>>), Some(<<0, 0, 0>>)),
      Zone("s2", Some(<<104, 40, 0, 106, 60, 30>>), Some(<<104, 40, 0>>)),
      Zone("s2", Some(<<70, 40, 0, 100, 60, 100>>), Some(<<198, 100, 40>>)),
      Zone("s3", Some(<<300, 0, 0, 400, 100, 30>>), None),
      Zone("s3", None, Some(<<700, 0, 0>>)) }

\* The candidate terminals of the inputs
Terminal(gid, origin, container) == [gid |-> gid, origin |-> origin, container |-> container]

Container(gid, isSpace) == Some([gid |-> gid, isSpace |-> isSpace])

TerminalChoices ==
    { Terminal(Some("e1"), Some(<<99, 50, 10>>), None),
      Terminal(Some("e1"), Some(<<50, 50, 50>>), None),
      Terminal(Some("e1"), None, None),
      Terminal(Some("e2"), Some(<<105, 50, 10>>), Container("sp", TRUE)),
      Terminal(Some("e2"), Some(<<99, 50, 10>>), Container("st", FALSE)),
      Terminal(Some("e9"), Some(<<50, 50, 10>>), None),
      Terminal(None, Some(<<50, 50, 10>>), None) }

\* the sequences over S of length 0..n
SeqsUpTo(S, n) == UNION {[1..k -> S] : k \in 0..n}

\* the spaces of a file, in file order: GlobalIds are unique
ZoneLists ==
    {zs \in SeqsUpTo(ZoneChoices, MaxZones) :
        \A i, j \in 1..Len(zs) : i # j => zs[i].gid # zs[j].gid}

\* the candidates, in the order of the by_type queries; an entity of a
\* subtype is returned by more than one query
TerminalLists == SeqsUpTo(TerminalChoices, MaxElems)

\* --z_tol and --xy_max: the defaults (3.0, 50.0), or 1.0 and no cap
ArgChoices == {[z_tol |-> 30, xy_max |-> 500], [z_tol |-> 10, xy_max |-> 0]}

LinkRun(script, zones, elems, args) ==
    [kind |-> "link", v |-> 0, dang |-> 0, script |-> script, zones |-> zones,
     elems |-> elems, z_tol |-> args.z_tol, xy_max |-> args.xy_max]

LinkRuns ==
    {LinkRun(sc, zs, es, [z_tol |-> 30, xy_max |-> 500]) :
        sc \in {"from_ifc", "from_two_ifc"}, zs \in ZoneLists, es \in TerminalLists}
    \cup {LinkRun("by_placement", zs, es, a) :
        zs \in ZoneLists, es \in TerminalLists, a \in ArgChoices}

\* ------------------------------------------------------------------------
\* ingest/extract_elevations.py: numeric coercion.  A JSON value is null, a
\* boolean, an integer (small, or too large for a float), a string, a list
\* or a mapping (the sequence of its <<key, value>> pairs, in order).
\* ------------------------------------------------------------------------
MaxDepth == 2

JNull == [kind |-> "null"]
JBool(b) == [kind |-> "bool", b |-> b]
JInt(n) == [kind |-> "int", n |-> n]
JBigInt == [kind |-> "bigint"]
JStr(s) == [kind |-> "str", s |-> s]
JList(xs) == [kind |-> "list", items |-> xs]
JDict(kvs) == [kind |-> "dict", items |-> kvs]

\* what a call gives: a float, None, or an exception that leaves the call
Float(n) == [kind |-> "float", v |-> n]
NaN == [kind |-> "float", nan |-> TRUE]
Absent == [kind |-> "absent"]

\* float(s) of a string
ParseFloat(s) ==
    CASE s = "7" -> Float(7)
      [] s = " 7 " -> Float(7)
      [] s = "nan" -> NaN
      [] OTHER -> Raised

\* s.strip() of a string
Strip(s) ==
    CASE s = " " -> ""
      [] s = " 7 " -> "7"
      [] OTHER -> s

\* the body of the try block of _as_float_primitive: float(x) of an int (a
\* bool is an int), of a non-blank string, and None by falling through
TryFloat(x) ==
    CASE x.kind = "bool" -> Float(IF x.b THEN 1 ELSE 0)
      [] x.kind = "int" -> Float(x.n)
      [] x.kind = "bigint" -> Raised
      [] x.kind = "str" -> IF Strip(x.s) # "" THEN ParseFloat(x.s) ELSE Absent
      [] OTHER -> Absent

\* a coercion without the except clause
TryFloatUncaught(x) == TryFloat(x)

\* _as_float_primitive: `except Exception: return None`
as_float_primitive(x) == IF TryFloat(x) = Raised THEN Absent ELSE TryFloat(x)

HasKey(kvs, k) == \E i \in 1..Len(kvs) : kvs[i][1] = k

\* x[k] for a key the mapping has
Lookup(kvs, k) == kvs[CHOOSE i \in 1..Len(kvs) : kvs[i][1] = k][2]

CanonicalKeys == <<"value", "Value", "nominalValue", "NominalValue">>

VectorKeys == {"x", "X", "y", "Y", "z", "Z"}

\* "IfcLengthMeasure" in k
HasLengthMeasure(k) == k \in {"IfcLengthMeasure", "IfcLengthMeasure2"}

RECURSIVE as_number(_)
RECURSIVE FirstNumber(_)
RECURSIVE FirstCanonical(_, _)

\* for it in x: v = as_number(it); if v is not None: return v
FirstNumber(items) ==
    IF items = <<>> THEN Absent
    ELSE LET v == as_number(Head(items))
         IN  IF v # Absent THEN v ELSE FirstNumber(Tail(items))

\* for k in ("value", ...): if k in x: v = as_number(x[k]); if v is not None: return v
FirstCanonical(kvs, keys) ==
    IF keys = <<>> THEN Absent
    ELSE IF HasKey(kvs, Head(keys))
    THEN LET v == as_number(Lookup(kvs, Head(keys)))
         IN  IF v # Absent THEN v ELSE FirstCanonical(kvs, Tail(keys))
    ELSE FirstCanonical(kvs, Tail(keys))

\* a coercion that tries the single-entry rule before the vector check
as_number_single_entry_first(x) ==
    CASE x.kind = "null" -> Absent
      [] x.kind \in {"bool", "int", "bigint", "str"} -> as_float_primitive(x)
      [] x.kind = "list" -> FirstNumber(x.items)
      [] x.kind = "dict" ->
            LET kvs == x.items
                v == FirstCanonical(kvs, CanonicalKeys)
                measures == {i \in 1..Len(kvs) : HasLengthMeasure(kvs[i][1])}
            IN  IF v # Absent THEN v
                ELSE IF Len(kvs) = 1 THEN as_number(kvs[1][2])
                ELSE IF \E i \in 1..Len(kvs) : kvs[i][1] \in VectorKeys THEN Absent
                ELSE IF measures # {}
                THEN as_number(kvs[CHOOSE i \in measures : \A j \in measures : i <= j][2])
                ELSE Absent
      [] OTHER -> Absent

\* as_number
as_number(x) ==
    CASE x.kind = "null" -> Absent
      [] x.kind \in {"bool", "int", "bigint", "str"} -> as_float_primitive(x)
      [] x.kind = "list" -> FirstNumber(x.items)
      [] x.kind = "dict" ->
            LET kvs == x.items
                v == FirstCanonical(kvs, CanonicalKeys)
                measures == {i \in 1..Len(kvs) : HasLengthMeasure(kvs[i][1])}
            IN  IF v # Absent THEN v
                ELSE IF \E i \in 1..Len(kvs) : kvs[i][1] \in VectorKeys THEN Absent
                ELSE IF measures # {}
                THEN as_number(kvs[CHOOSE i \in measures : \A j \in measures : i <= j][2])
                ELSE IF Len(kvs) = 1 THEN as_number(kvs[1][2])
                ELSE Absent
      [] OTHER -> Absent

\* The values of the inputs: the atoms, and what wrapping a value in a list
\* or a mapping, next to another entry or alone, gives
Atoms ==
    {JNull, JBool(TRUE), JBool(FALSE), JInt(0), JInt(7), JBigInt,
     JStr(""), JStr(" "), JStr("7"), JStr(" 7 "), JStr("abc"), JStr("nan")}

Siblings == {JNull, JInt(7)}

InputKeys == {"value", "z", "IfcLengthMeasure", "other"}

\* [v], [a, v], [v, b], [a, v, b]
ListsAround(v) ==
    {JList(pre \o <<v>> \o post) :
        pre \in {<<>>} \cup {<<a>> : a \in Siblings}, post \in {<<>>, <<JInt(7)>>}}

\* {k: v} and {k: v, k2: a}
DictsAround(v) ==
    {JDict(<< <<k, v>> >>) : k \in InputKeys}
    \cup {JDict(<< <<kk[1], v>>, <<kk[2], a>> >>) :
            kk \in {q \in InputKeys \X InputKeys : q[1] # q[2]}, a \in Siblings}

\* ------------------------------------------------------------------------
\* State
\* ------------------------------------------------------------------------
VARIABLES
    graph,      \* the persistent graph store
    run,        \* the input of the run in progress (or of the last one)
    pc,         \* per process: position in the statements of the run
    runs,       \* number of runs started
    prev,       \* the run before this one, and the graph when this one started
    aborted,    \* the run ended on a statement that raised
    tbl,        \* placement walk: the record table
    variant,    \* placement walk: "json" (extract_elevations) or "ifc" (ifc_to_neo4j)
    walk,       \* placement walk: cur, steps, z_total, seen and the break flag
    wpc,        \* placement walk: "idle", "loop" or "done"
    iters,      \* placement walk: number of loop iterations executed
    result,     \* placement walk: the returned value
    report,     \* the counters the script in progress prints when it ends
    call        \* a call of a helper function: its name, argument and outcome

vars == <<graph, run, pc, runs, prev, aborted, tbl, variant, walk, wpc, iters, result, report, call>>

graphVars == <<graph, run, pc, runs, prev, aborted, report>>
walkVars == <<tbl, variant, walk, wpc, iters, result>>

Procs == {"A", "B"}

\* the statements of every run, tabulated once
ProgramOf == [r \in RunChoices \cup {NoRun} |-> Program(r)]

Prog == IF run.kind = "link" THEN LinkProgram(run) ELSE ProgramOf[run]

Active(p) == pc[p] >= 1 /\ pc[p] <= Len(Prog)
Finished(p) == pc[p] > Len(Prog)
Stmt(p) == Prog[pc[p]]

\* a store in which an edge merge whose MATCH binds no row raises
RunRaisesOnDangling(G, s) ==
    s.op = "merge_rel" /\ (MatchNodes(G, {}, s.a) = {} \/ MatchNodes(G, {}, s.b) = {})

\* s.run / write_transaction raises only when the store cannot be reached
\* (not modelled): a MATCH that binds no row is an empty result, not an error
RunRaises(G, s) == FALSE

\* process p is about to issue a statement of kind op
At(p, op) == Active(p) /\ Stmt(p).op = op

\* the counters of a script when it starts: created / assigned = 0
NoReport == [created |-> 0, assigned |-> 0]

\* no helper function is being called
NoCall == [fn |-> "none"]

\* the counters after statement s: ifcjson_edges.py adds one to created
\* after every merge it issues (`...; created += 1`, `created += 2` after
\* the two merges of a pair)
\* and the linking scripts one to assigned after every MERGE of an IN_SPACE
\* edge they issue (len(links) in link_in_space_by_placement.py)
Counted(rep, kind, s) ==
    IF kind = "edges" /\ s.op = "merge_rel"
    THEN [rep EXCEPT !.created = @ + 1]
    ELSE IF s.op = "in_space"
    THEN [rep EXCEPT !.assigned = @ + 1]
    ELSE rep

\* process p issues its statement, whose effect on the store is G2; an
\* exception is not caught by the scripts and ends the run
Issue(p, G2) ==
    /\ IF RunRaises(graph, Stmt(p))
       THEN /\ graph' = graph
            /\ pc' = [pc EXCEPT ![p] = Len(Prog) + 1]
            /\ aborted' = TRUE
            /\ UNCHANGED report
       ELSE /\ graph' = G2
            /\ pc' = [pc EXCEPT ![p] = @ + 1]
            /\ report' = Counted(report, run.kind, Stmt(p))
            /\ UNCHANGED aborted
    /\ UNCHANGED <<run, runs, prev>>

JsonNodeMergeStep(p) ==
    /\ At(p, "json_node_merge")
    /\ Issue(p, JsonNodeMerge(graph, Stmt(p)))
    /\ UNCHANGED <<walkVars, call>>

AddLabelsStep(p) ==
    /\ At(p, "add_labels")
    /\ Issue(p, AddLabels(graph, Stmt(p)))
    /\ UNCHANGED <<walkVars, call>>

MergeRelStep(p) ==
    /\ At(p, "merge_rel")
    /\ Issue(p, merge_rel(graph, Stmt(p).a, Stmt(p).b, Stmt(p).reltype))
    /\ UNCHANGED <<walkVars, call>>

DeriveConnectedStep(p) ==
    /\ At(p, "derive_connected")
    /\ Issue(p, DeriveConnected(graph))
    /\ UNCHANGED <<walkVars, call>>

DeriveFeedsStep(p) ==
    /\ At(p, "derive_feeds")
    /\ Issue(p, DeriveFeeds(graph))
    /\ UNCHANGED <<walkVars, call>>

StoreyMergeStep(p) ==
    /\ At(p, "storey_merge")
    /\ Issue(p, StoreyMerge(graph, Stmt(p)))
    /\ UNCHANGED <<walkVars, call>>

ElemMergeStep(p) ==
    /\ At(p, "elem_merge")
    /\ Issue(p, ElemMerge(graph, Stmt(p)))
    /\ UNCHANGED <<walkVars, call>>

PsetSetStep(p) ==
    /\ At(p, "pset_set")
    /\ Issue(p, PsetSet(graph, Stmt(p)))
    /\ UNCHANGED <<walkVars, call>>

SpaceMergeStep(p) ==
    /\ At(p, "space_merge")
    /\ Issue(p, SpaceMerge(graph, Stmt(p)))
    /\ UNCHANGED <<walkVars, call>>

SysMergeStep(p) ==
    /\ At(p, "sys_merge")
    /\ Issue(p, SysMerge(graph, Stmt(p)))
    /\ UNCHANGED <<walkVars, call>>

\* a script is started on an input file once the previous run has ended
StartRun(r) ==
    /\ Finished("A")
    /\ runs < MaxRuns
    /\ run' = r
    /\ pc' = [pc EXCEPT !["A"] = 1]
    /\ runs' = runs + 1
    /\ prev' = [run |-> run, graph |-> graph]
    /\ aborted' = FALSE
    /\ report' = NoReport
    /\ UNCHANGED graph
    /\ UNCHANGED <<walkVars, call>>

\* the effect of one statement
ExecStmt(G, s) ==
    CASE s.op = "json_node_merge" -> JsonNodeMerge(G, s)
      [] s.op = "add_labels" -> AddLabels(G, s)
      [] s.op = "merge_rel" -> merge_rel(G, s.a, s.b, s.reltype)
      [] s.op = "in_space" -> InSpaceMerge(G, s.e, s.sp)
      [] s.op = "derive_connected" -> DeriveConnected(G)
      [] s.op = "derive_feeds" -> DeriveFeeds(G)
      [] s.op = "storey_merge" -> StoreyMerge(G, s)
      [] s.op = "elem_merge" -> ElemMerge(G, s)
      [] s.op = "pset_set" -> PsetSet(G, s)
      [] s.op = "space_merge" -> SpaceMerge(G, s)
      [] s.op = "sys_merge" -> SysMerge(G, s)

\* the graph after the statements stmts[i..Len(stmts)], issued in order; each
\* statement runs against the completed result of the one before it
RECURSIVE RunFrom(_, _, _)
RunFrom(G, stmts, i) ==
    IF i > Len(stmts) THEN G
    ELSE LET G1 == ExecStmt(G, stmts[i])
         IN  IF Len(G1.nodes) >= 0 THEN RunFrom(G1, stmts, i + 1) ELSE G1

\* the graph after one complete, uninterrupted run of the statements stmts
RunProgram(G, stmts) == RunFrom(G, stmts, 1)

WalkIdle ==
    /\ tbl = EmptyProps
    /\ variant = "none"
    /\ walk = [cur |-> None, steps |-> 0, z_total |-> 0, seen |-> {}, brk |-> FALSE]
    /\ wpc = "idle"
    /\ iters = 0
    /\ result = None

\* ------------------------------------------------------------------------
\* Spec: ingestion runs one after the other against one graph store
\* ------------------------------------------------------------------------
Init ==
    /\ graph = EmptyGraph
    /\ run = NoRun
    /\ pc = [p \in Procs |-> IF p = "A" THEN 1 ELSE 0]
    /\ runs = 0
    /\ prev = [run |-> NoRun, graph |-> EmptyGraph]
    /\ aborted = FALSE
    /\ report = NoReport
    /\ call = NoCall
    /\ WalkIdle

Next ==
    \/ \E r \in RunChoices : StartRun(r)
    \/ JsonNodeMergeStep("A")
    \/ AddLabelsStep("A")
    \/ MergeRelStep("A")
    \/ DeriveConnectedStep("A")
    \/ DeriveFeedsStep("A")
    \/ StoreyMergeStep("A")
    \/ ElemMergeStep("A")
    \/ PsetSetStep("A")
    \/ SpaceMergeStep("A")
    \/ SysMergeStep("A")

Spec == Init /\ [][Next]_vars

\* ------------------------------------------------------------------------
\* Properties of the graph store under sequential runs (Spec)
\* ------------------------------------------------------------------------
NodeIds == 1..Len(graph.nodes)

\* the identifier id has no node
Missing(G, id) == MatchNodes(G, {}, id) = {}

\* the statements the run has issued so far
Issued == 1..((IF aborted THEN 0 ELSE pc["A"]) - 1)

IsNodeUpsert(s) ==
    s.op \in {"json_node_merge", "storey_merge", "elem_merge", "space_merge", "sys_merge"}

IsEdgeUpsert(s) == s.op \in {"merge_rel", "derive_connected", "derive_feeds"}

\* the identifiers a statement names
Refs(s) ==
    CASE s.op = "merge_rel" -> {s.a, s.b}
      [] s.op \in {"derive_connected", "derive_feeds"} -> {}
      [] OTHER -> {s.id}

\* C1: a full ifcJSON pass that follows a full ifcJSON pass over the same
\* input leaves the graph exactly as the first one left it: same nodes,
\* labels, property values and edges, whatever the graph was before.
C1_Idempotent ==
    (Finished("A") /\ ~aborted /\ run.kind = "json" /\ prev.run = run) => graph = prev.graph

\* the second of two identical ifcJSON passes has ended; the first one
\* started from a graph another run had filled, and port paths gave edges
C1_Witness ==
    /\ Finished("A") /\ run.kind = "json" /\ prev.run = run /\ runs >= 3
    /\ EdgesOfType(graph, "FEEDS") # {}
    /\ EdgesOfType(graph, "CONNECTED_TO") # {}
    /\ Len(graph.nodes) > 15

\* C2: a property other than type that holds a non-null value keeps that
\* value in every later step (first non-null write wins).
C2_FirstWriteWins ==
    [][\A i \in NodeIds : \A k \in DOMAIN graph.nodes[i].props \ {"type"} :
          k \in DOMAIN graph'.nodes[i].props
             => graph'.nodes[i].props[k] = graph.nodes[i].props[k]]_vars

\* C3: the set of keys of a node that hold a non-null value only grows.
C3_NeverRemoved ==
    [][\A i \in NodeIds :
          DOMAIN graph.nodes[i].props \subseteq DOMAIN graph'.nodes[i].props]_vars

\* C4: there is at most one node per Identifier.
C4_UniqueIdentifier ==
    \A i, j \in NodeIds : graph.nodes[i].globalId = graph.nodes[j].globalId => i = j

\* the (sourceId, targetId, type) triple of an edge
Triple(e) == <<graph.nodes[e.src].globalId, graph.nodes[e.dst].globalId, e.type>>

\* C5: there is at most one edge per (sourceId, targetId, type) triple.
C5_UniqueTriple ==
    \A e, f \in BagToSet(graph.edges) :
        /\ CopiesIn(e, graph.edges) = 1
        /\ Triple(e) = Triple(f) => e = f

\* C6: a statement of a relationship step that names an Identifier without
\* a node changes nothing: no edge and no node is created.
C6_NoPlaceholder ==
    [][(Active("A") /\ Stmt("A").phase = "rels"
          /\ \E id \in Refs(Stmt("A")) : Missing(graph, id)) => graph' = graph]_vars

\* C7: within a run, no node upsert is issued after an edge upsert.
C7_NodesBeforeEdges ==
    \A i, j \in Issued : (i < j /\ IsEdgeUpsert(Prog[i])) => ~IsNodeUpsert(Prog[j])

\* a merge_rel statement whose both endpoints have a node has its edges
EdgePresent(s) ==
    \A a \in MatchNodes(graph, {}, s.a) : \A b \in MatchNodes(graph, {}, s.b) :
        BagIn(Rel(a, b, s.reltype), graph.edges)

\* C9: when a relationship pass has ended, every relationship record whose
\* endpoints exist has its edge, also when another record of the pass
\* named an Identifier without a node.
C9_OthersStillMerge ==
    (Finished("A") /\ run.kind \in {"json", "edges"})
        => \A i \in 1..Len(Prog) : Prog[i].op = "merge_rel" => EdgePresent(Prog[i])

\* a pass has ended in which an edge upsert named a missing Identifier and
\* a later edge upsert of the same pass merged its edge
C9_Witness ==
    /\ Finished("A") /\ run.kind \in {"json", "edges"} /\ run.dang > 0
    /\ \E i, j \in 1..Len(Prog) :
          /\ i < j
          /\ Prog[i].op = "merge_rel" /\ Prog[j].op = "merge_rel"
          /\ (Missing(graph, Prog[i].a) \/ Missing(graph, Prog[i].b))
          /\ ~Missing(graph, Prog[j].a) /\ ~Missing(graph, Prog[j].b)
          /\ EdgePresent(Prog[j])

\* ------------------------------------------------------------------------
\* SpecConc: after at most one earlier run, two ifcJSON passes over the same
\* file run at once against the store; every statement is atomic
\* ------------------------------------------------------------------------
StartSeed(r) == runs = 0 /\ StartRun(r)

StartConcurrent(r) ==
    /\ Finished("A")
    /\ pc["B"] = 0
    /\ r.kind = "json"
    /\ run' = r
    /\ pc' = [p \in Procs |-> 1]
    /\ runs' = runs + 1
    /\ prev' = [run |-> run, graph |-> graph]
    /\ aborted' = FALSE
    /\ report' = NoReport
    /\ UNCHANGED graph
    /\ UNCHANGED <<walkVars, call>>

NextConc ==
    \/ \E r \in RunChoices : StartSeed(r)
    \/ \E r \in RunChoices : StartConcurrent(r)
    \/ \E p \in Procs :
        \/ JsonNodeMergeStep(p)
        \/ AddLabelsStep(p)
        \/ MergeRelStep(p)
        \/ DeriveConnectedStep(p)
        \/ DeriveFeedsStep(p)
        \/ StoreyMergeStep(p)
        \/ ElemMergeStep(p)
        \/ PsetSetStep(p)
        \/ SpaceMergeStep(p)
        \/ SysMergeStep(p)

SpecConc == Init /\ [][NextConc]_vars

BothFinished == pc["B"] >= 1 /\ Finished("A") /\ Finished("B")

\* C8: when two concurrent ifcJSON passes over the same file have both
\* ended, the graph is the one a single pass over that file produces from
\* the graph they started on.
C8_Converge == BothFinished => graph = RunProgram(prev.graph, Prog)

\* both passes have ended on a store an earlier run had filled, and the
\* result has derived edges
C8_Witness ==
    /\ BothFinished
    /\ prev.graph.nodes # <<>>
    /\ EdgesOfType(graph, "FEEDS") # {}

\* ------------------------------------------------------------------------
\* SpecResolve: one call of z_from_local_placement on a record table
\* ------------------------------------------------------------------------
PKeys == {"A", "B"}

Locs == {None} \cup {Some(<<Some(0), Some(0), Some(z)>>) : z \in 0..MaxZ}

\* placements of an ifcJSON record table: the parent reference is absent,
\* a key, a {"ref": key} mapping, a key the table lacks, or a number
\* locations of an ifcJSON file: those above, and coordinate lists with
\* entries that do not coerce to a number (null, text): all of them, the
\* X entry of a 3-list, the X entry of a 4-list whose Z entry is 0
JsonLocs ==
    Locs \cup {Some(<<None, None, None>>),
               Some(<<None, Some(0), Some(MaxZ)>>),
               Some(<<None, Some(0), Some(0), Some(MaxZ)>>)}

JsonPlacements ==
    [oid : {None, Some("i1"), Some("i2")}, loc : JsonLocs,
     parent : {NoneV, StrV("A"), DictV("B"), StrV("X"), NumV}]

\* placements of an IFC file: PlacementRelTo is None or a placement
IfcPlacements == [oid : {None}, loc : Locs, parent : {NoneV, StrV("A"), StrV("B")}]

InitResolve ==
    /\ graph = EmptyGraph
    /\ run = NoRun
    /\ pc = [p \in Procs |-> IF p = "A" THEN 1 ELSE 0]
    /\ runs = 0
    /\ prev = [run |-> NoRun, graph |-> EmptyGraph]
    /\ aborted = FALSE
    /\ report = NoReport
    /\ call = NoCall
    /\ variant \in {"json", "ifc"}
    /\ tbl \in IF variant = "json" THEN [PKeys -> JsonPlacements] ELSE [PKeys -> IfcPlacements]
    /\ walk = [cur |-> None, steps |-> 0, z_total |-> 0, seen |-> {}, brk |-> FALSE]
    /\ wpc = "idle"
    /\ iters = 0
    /\ result = None

\* the call: lp is the placement of the record table under key k
WalkBegin(k) ==
    /\ wpc = "idle"
    /\ walk' = WalkStart(tbl[k])
    /\ wpc' = "loop"
    /\ call' = [fn |-> "z_from_local_placement", arg |-> k]
    /\ UNCHANGED <<tbl, variant, iters, result>>
    /\ UNCHANGED graphVars

JsonWalkStep ==
    /\ wpc = "loop" /\ variant = "json"
    /\ JsonWalkGuard(walk)
    /\ walk' = JsonWalkBody(tbl, walk)
    /\ iters' = iters + 1
    /\ UNCHANGED <<tbl, variant, wpc, result>>
    /\ UNCHANGED <<graphVars, call>>

\* return z_total if steps >= 0 else None
JsonWalkReturn ==
    /\ wpc = "loop" /\ variant = "json"
    /\ ~JsonWalkGuard(walk)
    /\ result' = IF walk.steps >= 0 THEN Some(walk.z_total) ELSE None
    /\ wpc' = "done"
    /\ UNCHANGED <<tbl, variant, walk, iters>>
    /\ UNCHANGED <<graphVars, call>>

IfcWalkStep ==
    /\ wpc = "loop" /\ variant = "ifc"
    /\ IfcWalkGuard(walk)
    /\ walk' = IfcWalkBody(tbl, walk)
    /\ iters' = iters + 1
    /\ UNCHANGED <<tbl, variant, wpc, result>>
    /\ UNCHANGED <<graphVars, call>>

\* return z
IfcWalkReturn ==
    /\ wpc = "loop" /\ variant = "ifc"
    /\ ~IfcWalkGuard(walk)
    /\ result' = Some(walk.z_total)
    /\ wpc' = "done"
    /\ UNCHANGED <<tbl, variant, walk, iters>>
    /\ UNCHANGED <<graphVars, call>>

NextResolve ==
    \/ \E k \in PKeys : WalkBegin(k)
    \/ JsonWalkStep
    \/ JsonWalkReturn
    \/ IfcWalkStep
    \/ IfcWalkReturn

SpecResolve == InitResolve /\ [][NextResolve]_vars

\* the PlacementRelTo references of the table form a cycle through every
\* placement, and no placement carries an identifier
IdlessCycle ==
    /\ \A k \in PKeys : tbl[k].oid = None
    /\ deref(tbl, tbl["A"].parent) = Some(tbl["B"])
    /\ deref(tbl, tbl["B"].parent) = Some(tbl["A"])
    /\ tbl["A"] # tbl["B"]

\* C10: a walk executes at most HopLimit loop iterations on every record
\* table, cyclic or not, with or without identifiers, and what it returns
\* is unresolved or a finite sum of at most HopLimit offsets.
C10_WalkTerminates ==
    /\ iters <= HopLimit
    /\ wpc = "done" => (result = None \/ result[1] \in 0..(HopLimit * MaxZ))

\* a walk over a cycle A -> B -> A of placements without identifiers has
\* returned, after running into the hop limit
C10_Witness ==
    /\ wpc = "done" /\ variant = "json"
    /\ IdlessCycle
    /\ iters = HopLimit
    /\ result # None

\* ------------------------------------------------------------------------
\* SpecPosition: the position of one record is resolved and written
\* (extract_elevations.py main, pass 2; ifc_to_neo4j.py main, elements)
\* ------------------------------------------------------------------------
MaxChain == 65

\* the Z offset of placement i of a chain of pattern p: 0, i, 2i, ...
ZOffset(i, p) == i * p

\* a record table holding one acyclic chain of n placements: placement i
\* is relative to placement i + 1, the last one to nothing; every location
\* has three numeric components, X and Y never zero
ChainTable(n, p, ids) ==
    [i \in 1..n |->
        [oid |-> IF ids THEN Some(i) ELSE None,
         loc |-> Some(<<Some(i), Some(7), Some(ZOffset(i, p))>>),
         parent |-> IF i < n THEN StrV(i + 1) ELSE NoneV]]

\* the record whose position is set: the pump e1, with or without a
\* reference to the first placement of the chain
PositionRecord(kind, placed) ==
    [id |-> "e1", name |-> "Pump", type |-> IfcPump,
     ObjectPlacement |-> IF kind = "json" THEN (IF placed THEN StrV(1) ELSE NoneV)
                         ELSE (IF placed THEN Some(1) ELSE None)]

\* the graph the position pass finds: an ifcJSON import, or an ifcJSON
\* import followed by an IFC import that has set a z on e1
JsonImported == RunProgram(EmptyGraph, ProgramOf[[kind |-> "json", v |-> 1, dang |-> 0]])

IfcImported == RunProgram(JsonImported, ProgramOf[[kind |-> "ifc", v |-> 1, dang |-> 0]])

\* MATCH (n {globalId:$id}) SET n.z = $z, issued `if z is not None` and
\* not at all otherwise
SetZOrZero(G, id, z) ==
    UpdateNodes(G, MatchNodes(G, {}, id),
        LAMBDA n : SetAll(n.props, [z |-> IF z # None THEN z ELSE Some(0)]))

\* extract_elevations.py main, pass 2:
\* if z is not None: MATCH (n {globalId:$id}) SET n.z = $z
SetZ(G, id, z) ==
    IF z # None
    THEN UpdateNodes(G, MatchNodes(G, {}, id), LAMBDA n : SetAll(n.props, [z |-> z]))
    ELSE G

InitPosition ==
    /\ graph \in {JsonImported, IfcImported}
    /\ run = NoRun
    /\ pc = [p \in Procs |-> IF p = "A" THEN 1 ELSE 0]
    /\ runs = 0
    /\ prev = [run |-> NoRun, graph |-> graph]
    /\ aborted = FALSE
    /\ report = NoReport
    /\ variant \in {"json", "ifc"}
    /\ \E n \in 0..MaxChain, p \in 0..MaxVal, ids \in BOOLEAN :
          tbl = ChainTable(n, p, ids)
    /\ \E placed \in BOOLEAN :
          call = [fn |-> "z_from_object_placement",
                  arg |-> PositionRecord(variant, placed /\ tbl # <<>>)]
    /\ walk = [cur |-> None, steps |-> 0, z_total |-> 0, seen |-> {}, brk |-> FALSE]
    /\ wpc = "idle"
    /\ iters = 0
    /\ result = None

\* IfcResolver.z_from_object_placement: op = deref(ObjectPlacement);
\* `if not isinstance(op, dict): return None`, else the walk starts at op
JsonPositionBegin ==
    /\ wpc = "idle" /\ variant = "json"
    /\ call.fn = "z_from_object_placement"
    /\ LET op == deref(tbl, call.arg.ObjectPlacement)
       IN  IF op = None
           THEN result' = None /\ wpc' = "done" /\ UNCHANGED walk
           ELSE walk' = WalkStart(op[1]) /\ wpc' = "loop" /\ UNCHANGED result
    /\ UNCHANGED <<tbl, variant, iters>>
    /\ UNCHANGED <<graphVars, call>>

\* ifc_to_neo4j.z_of: `if not op: return None`, else the walk starts at
\* the local placement op
IfcPositionBegin ==
    /\ wpc = "idle" /\ variant = "ifc"
    /\ call.fn = "z_from_object_placement"
    /\ IF call.arg.ObjectPlacement = None
       THEN result' = None /\ wpc' = "done" /\ UNCHANGED walk
       ELSE walk' = WalkStart(tbl[call.arg.ObjectPlacement[1]]) /\ wpc' = "loop"
            /\ UNCHANGED result
    /\ UNCHANGED <<tbl, variant, iters>>
    /\ UNCHANGED <<graphVars, call>>

\* extract_elevations.py main, pass 2, after the resolution has returned
SetZStep ==
    /\ wpc = "done" /\ variant = "json"
    /\ graph' = SetZ(graph, call.arg.id, result)
    /\ wpc' = "written"
    /\ UNCHANGED <<run, pc, runs, prev, aborted, report>>
    /\ UNCHANGED <<tbl, variant, walk, iters, result, call>>

\* ifc_to_neo4j.py main, the element MERGE after z_of has returned
ElemZStep ==
    /\ wpc = "done" /\ variant = "ifc"
    /\ graph' = ElemMerge(graph, [id |-> call.arg.id, name |-> call.arg.name,
                                  type |-> call.arg.type, src |-> "ifc_file", z |-> result])
    /\ wpc' = "written"
    /\ UNCHANGED <<run, pc, runs, prev, aborted, report>>
    /\ UNCHANGED <<tbl, variant, walk, iters, result, call>>

NextPosition ==
    \/ JsonPositionBegin
    \/ IfcPositionBegin
    \/ JsonWalkStep
    \/ JsonWalkReturn
    \/ IfcWalkStep
    \/ IfcWalkReturn
    \/ SetZStep
    \/ ElemZStep

SpecPosition == InitPosition /\ [][NextPosition]_vars

\* the record of the call refers to a placement
Placed ==
    IF variant = "json" THEN call.arg.ObjectPlacement # NoneV
    ELSE call.arg.ObjectPlacement # None

\* the resolution of the record has returned
Resolved == wpc \in {"done", "written"}

RECURSIVE SumZFrom(_, _)
\* the sum of the Z components of placements i, i + 1, ... of the table
SumZFrom(t, i) == IF i > Len(t) THEN 0 ELSE t[i].loc[1][3][1] + SumZFrom(t, i + 1)

LinkSeed ==
    SpaceMerge(JsonImported, [op |-> "space_merge", phase |-> "nodes", id |-> "s2",
                              name |-> "102", src |-> "ifc_file", long |-> None])

InitLink ==
    /\ graph = LinkSeed
    /\ run \in LinkRuns
    /\ pc = [p \in Procs |-> IF p = "A" THEN 1 ELSE 0]
    /\ runs = 1
    /\ prev = [run |-> NoRun, graph |-> LinkSeed]
    /\ aborted = FALSE
    /\ report = NoReport
    /\ call = NoCall
    /\ WalkIdle

\* s.run("MATCH (e {globalId:$e}),(sp:IfcSpace {globalId:$sp})
\*        MERGE (e)-[:IN_SPACE]->(sp)"); assigned += 1
LinkStep(p) ==
    /\ At(p, "in_space")
    /\ Issue(p, InSpaceMerge(graph, Stmt(p).e, Stmt(p).sp))
    /\ UNCHANGED <<walkVars, call>>

NextLink == LinkStep("A")

SpecLink == InitLink /\ [][NextLink]_vars

\* the pass has ended
LinkDone == run.kind = "link" /\ Finished("A")

\* the spaces element e has an IN_SPACE edge to
AssignedZones(G, e) ==
    {G.nodes[x.dst].globalId :
        x \in {y \in EdgesOfType(G, "IN_SPACE") : G.nodes[y.src].globalId = e}}

\* the terminals a volume-based pass looks at
Terms == Dedupe(run.elems, {})

\* the terminal goes through the geometric tiers of the pass
Geometric(t) ==
    /\ t.origin # None
    /\ ~(run.script = "from_ifc" /\ t.container # None /\ t.container[1].isSpace)

\* the spaces of the run whose volume contains the point
Containing(pt) ==
    {space_aabb(run.zones)[i].gid :
        i \in {j \in 1..Len(space_aabb(run.zones)) : contains(space_aabb(run.zones)[j].aabb[1], pt)}}

\* C12: when some zone volume contains the element's position, the
\* volume-based passes assign a zone that contains it and never a zone that
\* does not, whatever the order of the zones and however near the center
\* of a zone that does not contain it.
C12_ContainmentFirst ==
    (LinkDone /\ run.script \in {"from_ifc", "from_two_ifc"}) =>
        \A i \in 1..Len(Terms) :
            (Geometric(Terms[i]) /\ Containing(Terms[i].origin[1]) # {}) =>
                /\ AssignedZones(graph, Terms[i].gid[1]) \subseteq Containing(Terms[i].origin[1])
                /\ (/\ ~Missing(graph, Terms[i].gid[1])
                    /\ \A z \in Containing(Terms[i].origin[1]) :
                          MatchNodes(graph, {IfcSpace}, z) # {})
                      => AssignedZones(graph, Terms[i].gid[1]) # {}

\* e1 lies inside the volume of sp, outside that of s2 and nearer to the
\* center of s2, s2 comes first in the file, and e1 is IN_SPACE sp
C12_Witness ==
    /\ LinkDone /\ run.script \in {"from_ifc", "from_two_ifc"}
    /\ Len(run.zones) = 2 /\ run.zones[1].gid = "s2" /\ run.zones[2].gid = "sp"
    /\ Len(run.elems) >= 1 /\ run.elems[1].gid = Some("e1")
    /\ run.elems[1].origin = Some(<<99, 50, 10>>)
    /\ Dist2(center(run.zones[1].aabb[1]), <<99, 50, 10>>)
         < Dist2(center(run.zones[2].aabb[1]), <<99, 50, 10>>)
    /\ AssignedZones(graph, "e1") = {"sp"}

\* C13: in the nearest-center fallback of the volume-based passes, a zone
\* whose center is more than the vertical gate (1.0) above or below the
\* element is never selected: an element contained in no zone gets no
\* IN_SPACE edge to such a zone.
C13_GatedFallback ==
    (LinkDone /\ run.script \in {"from_ifc", "from_two_ifc"}) =>
        \A i \in 1..Len(Terms) :
            (Geometric(Terms[i]) /\ Containing(Terms[i].origin[1]) = {}) =>
                \A j \in 1..Len(space_aabb(run.zones)) :
                    LET z == space_aabb(run.zones)[j]
                    IN  Abs(center(z.aabb[1])[3] - Terms[i].origin[1][3]) > 10
                            => z.gid \notin AssignedZones(graph, Terms[i].gid[1])

\* the candidate has a GlobalId and its container is a space
HasContainerZone(t) == t.gid # None /\ t.container # None /\ t.container[1].isSpace

\* C14: every zone-assignment pass assigns an element whose input names a
\* container zone to that zone, and to no zone found geometrically.
C14_ContainerUsed ==
    LinkDone =>
        \A i \in 1..Len(run.elems) :
            HasContainerZone(run.elems[i]) =>
                /\ AssignedZones(graph, run.elems[i].gid[1]) \subseteq {run.elems[i].container[1].gid}
                /\ (/\ ~Missing(graph, run.elems[i].gid[1])
                    /\ MatchNodes(graph, {IfcSpace}, run.elems[i].container[1].gid) # {})
                      => AssignedZones(graph, run.elems[i].gid[1]) # {}

\* the unassigned count of a report; the scripts print none
ReportedUnassigned(rep) == IF "unassigned" \in DOMAIN rep THEN rep.unassigned ELSE 0

\* the candidate elements of the run, by GlobalId
CandidateIds == {run.elems[i].gid[1] : i \in {j \in 1..Len(run.elems) : run.elems[j].gid # None}}

\* C15: when a zone-assignment pass has ended, reported assigned plus
\* reported unassigned is the number of candidate elements, and reported
\* assigned is the number of candidates that have an IN_SPACE edge.
C15_Accounted ==
    LinkDone =>
        /\ report.assigned + ReportedUnassigned(report) = Cardinality(CandidateIds)
        /\ report.assigned = Cardinality({e \in CandidateIds : AssignedZones(graph, e) # {}})

\* the edge upserts of the run whose two endpoints have a node (a pass
\* that writes edges creates no node, so this does not change during it)
WithEndpoints ==
    {i \in 1..Len(Prog) :
        Prog[i].op = "merge_rel" /\ ~Missing(graph, Prog[i].a) /\ ~Missing(graph, Prog[i].b)}

\* C16: at the end of the edge pass (ifcjson_edges.py) the reported number
\* of merged edges is the number of edge upserts whose two endpoints
\* existed; an upsert that found an endpoint missing is not counted.
C16_SkippedNotCounted ==
    (run.kind = "edges" /\ Finished("A")) => report.created = Cardinality(WithEndpoints)

\* the labels of the MERGE pattern of a node upsert
UpsertLabels(s) ==
    CASE s.op = "json_node_merge" -> {IfcEntity}
      [] s.op = "storey_merge" -> {IfcEntity, IfcBuildingStorey}
      [] s.op = "elem_merge" -> {IfcEntity, s.type, cmms_label(s.type)}
      [] s.op = "space_merge" -> {IfcEntity, IfcSpace}
      [] s.op = "sys_merge" -> {IfcEntity, IfcSystem}

\* the type a node upsert gives: $ifc_type, $type or the literal of the
\* statement
UpsertType(s) ==
    CASE s.op = "json_node_merge" -> s.ifc_type
      [] s.op = "storey_merge" -> IfcBuildingStorey
      [] s.op = "elem_merge" -> s.type
      [] s.op = "space_merge" -> IfcSpace
      [] s.op = "sys_merge" -> IfcSystem

\* C17: after an upsert of a node that exists, the type property of the
\* node is the type the upsert gives, whatever it was before.
C17_TypeRefreshed ==
    [][(Active("A") /\ IsNodeUpsert(Stmt("A"))) =>
          \A i \in MatchNodes(graph, UpsertLabels(Stmt("A")), Stmt("A").id) :
              Prop(graph'.nodes[i], "type") = Some(UpsertType(Stmt("A")))]_vars

\* the nodes of the record of the call
RecordNodes(G) == MatchNodes(G, {}, call.arg.id)

\* the z of node i when the pass started; a node the pass created had none
ZBefore(i) ==
    IF i <= Len(prev.graph.nodes) THEN Prop(prev.graph.nodes[i], "z") ELSE None

\* C18: a record without a placement reference resolves to unresolved and
\* the position-setting pass writes no z for it (every node of the record
\* keeps the z it had, or none); a record whose chain sums to 0 resolves to
\* 0 and gets z = 0 written.
C18_UnresolvedNotZero ==
    /\ (Resolved /\ ~Placed) => result = None
    /\ (wpc = "written" /\ ~Placed) =>
          \A i \in RecordNodes(graph) : Prop(graph.nodes[i], "z") = ZBefore(i)
    /\ (wpc = "written" /\ Placed /\ Len(tbl) <= 64 /\ SumZFrom(tbl, 1) = 0) =>
          /\ result = Some(0)
          /\ \E i \in RecordNodes(graph) : Prop(graph.nodes[i], "z") = Some(0)

\* the pass has ended for a record without placement whose node had z = 2
\* from an earlier import: the resolution returned unresolved and the node
\* still has z = 2
C18_Witness ==
    /\ wpc = "written" /\ variant = "json"
    /\ ~Placed /\ result = None
    /\ tbl # <<>>
    /\ RecordNodes(graph) # {}
    /\ \A i \in RecordNodes(graph) : Prop(graph.nodes[i], "z") = Some(2)

\* ------------------------------------------------------------------------
\* SpecCall: one call of a helper function of the ingestion scripts on a
\* value of the input file: as_number on a JSON value, first and g on a
\* record and a list of candidate keys
\* ------------------------------------------------------------------------
Pending == [kind |-> "pending"]

\* the candidate keys of the calls of the accessor
KeyLists == {<<"Elevation">>, <<"Elevation", "elevation">>, <<"elevation", "Elevation">>}

\* the mappings over the candidate keys: each key is absent, null or a value
KeyMaps(val) ==
    UNION {[D -> {NoneV, StrV(val)}] : D \in SUBSET {"Elevation", "elevation"}}

\* what the attributes field holds when it is not a mapping: null, a
\* string without or with a candidate key in it, an empty list, a list of
\* key names, a number
AttrShapes ==
    {NoneV, StrV("text"), StrV("see Elevation"), ListV(<<>>),
     ListV(<<StrV("Elevation")>>), NumV}

\* the records: the candidate keys at the top level, and attributes absent,
\* a mapping, or of another shape
Records ==
    KeyMaps("top")
    \cup {[k \in DOMAIN top \cup {"attributes"} |->
              IF k = "attributes" THEN a ELSE top[k]] :
            top \in KeyMaps("top"), a \in KeyMaps("nested") \cup AttrShapes}

InitCall ==
    /\ graph = EmptyGraph
    /\ run = NoRun
    /\ pc = [p \in Procs |-> IF p = "A" THEN 1 ELSE 0]
    /\ runs = 0
    /\ prev = [run |-> NoRun, graph |-> EmptyGraph]
    /\ aborted = FALSE
    /\ report = NoReport
    /\ WalkIdle
    /\ \/ \E a \in Atoms : call = [fn |-> "as_number", arg |-> a, depth |-> 0, out |-> Pending]
       \/ \E f \in {"first", "g"}, d \in Records, keys \in KeyLists :
             call = [fn |-> f, arg |-> d, keys |-> keys, out |-> Pending]

\* the value of the call is an element of a list of the file
WrapList ==
    /\ call.fn = "as_number" /\ call.out = Pending /\ call.depth < MaxDepth
    /\ \E x \in ListsAround(call.arg) :
          call' = [call EXCEPT !.arg = x, !.depth = @ + 1]
    /\ UNCHANGED <<graphVars, walkVars>>

\* the value of the call is an entry of a mapping of the file
WrapDict ==
    /\ call.fn = "as_number" /\ call.out = Pending /\ call.depth < MaxDepth
    /\ \E x \in DictsAround(call.arg) :
          call' = [call EXCEPT !.arg = x, !.depth = @ + 1]
    /\ UNCHANGED <<graphVars, walkVars>>

CallAsNumber ==
    /\ call.fn = "as_number" /\ call.out = Pending
    /\ call' = [call EXCEPT !.out = as_number(call.arg)]
    /\ UNCHANGED <<graphVars, walkVars>>

CallFirst ==
    /\ call.fn = "first" /\ call.out = Pending
    /\ call' = [call EXCEPT !.out = first(call.arg, call.keys)]
    /\ UNCHANGED <<graphVars, walkVars>>

CallG ==
    /\ call.fn = "g" /\ call.out = Pending
    /\ call' = [call EXCEPT !.out = g(call.arg, call.keys)]
    /\ UNCHANGED <<graphVars, walkVars>>

NextCall ==
    \/ WrapList
    \/ WrapDict
    \/ CallAsNumber
    \/ CallFirst
    \/ CallG

SpecCall == InitCall /\ [][NextCall]_vars

\* the call has returned or raised
Returned(f) == call.fn = f /\ call.out # Pending

\* C19: as_number is total: on every value built from null, booleans,
\* numbers, strings, lists and mappings it returns a number or absent, and
\* no exception leaves it.
C19_Total == Returned("as_number") => call.out.kind \in {"float", "absent"}

\* as_number has returned absent on {"value": ["abc"]}, where float("abc")
\* raised inside the call
C19_Witness ==
    /\ Returned("as_number")
    /\ call.arg = JDict(<< <<"value", JList(<<JStr("abc")>>)>> >>)
    /\ TryFloat(JStr("abc")) = Raised
    /\ call.out = Absent

\* the positions of the candidate keys the mapping d has
Present(d, keys) == {i \in 1..Len(keys) : keys[i] \in DOMAIN d}

\* the first candidate key the mapping d has
FirstPresent(d, keys) == keys[CHOOSE i \in Present(d, keys) : \A j \in Present(d, keys) : i <= j]

\* the attributes field of the record is absent or a mapping
MappingAttrs(d) == "attributes" \notin DOMAIN d \/ IsMapping(d.attributes)

\* C20: the accessor (first, g) returns the value of the first candidate
\* key present at the top level of the record, null included; when no
\* candidate key is at the top level, the value of the first candidate key
\* present in attributes; and absent only when no candidate key is in
\* either place (for a record whose attributes field is absent or a
\* mapping).
C20_FirstPresent ==
    ((Returned("first") \/ Returned("g")) /\ MappingAttrs(call.arg)) =>
        call.out =
            IF Present(call.arg, call.keys) # {}
            THEN call.arg[FirstPresent(call.arg, call.keys)]
            ELSE IF Present(AttrsOf(call.arg), call.keys) # {}
            THEN AttrsOf(call.arg)[FirstPresent(AttrsOf(call.arg), call.keys)]
            ELSE NoneV

\* first has returned the null of the first candidate key, which is at the
\* top level, while the second candidate key and the nested first
\* candidate key hold values
C20_Witness ==
    /\ Returned("first")
    /\ call.keys = <<"Elevation", "elevation">>
    /\ DOMAIN call.arg = {"Elevation", "elevation", "attributes"}
    /\ call.arg.Elevation = NoneV
    /\ call.arg.elevation = StrV("top")
    /\ call.arg.attributes = [Elevation |-> StrV("nested")]
    /\ call.out = NoneV

\* ------------------------------------------------------------------------
\* Under SpecResolve: cycles of the record table
\* ------------------------------------------------------------------------
\* the Z offset the placement pl adds when the loop body processes it
OffsetOf(pl) ==
    LET coords == IF pl.loc # None THEN coords_from_point(pl.loc[1]) ELSE None
    IN  IF coords # None /\ Len(coords[1]) >= 3 THEN coords[1][3] ELSE 0

RECURSIVE SumOffsets(_, _)
SumOffsets(t, keys) ==
    IF keys = {} THEN 0
    ELSE LET k == CHOOSE x \in keys : TRUE
         IN  OffsetOf(t[k]) + SumOffsets(t, keys \ {k})

\* C21: within one resolution call over an ifcJSON record table no
\* placement is processed twice: the loop runs at most once per key of the
\* table (plus the iteration that detects the recurrence), and the value
\* returned holds the offset of every placement at most once.
C21_VisitedOnce ==
    (wpc = "done" /\ variant = "json") =>
        /\ iters <= Cardinality(PKeys) + 1
        /\ result # None => result[1] <= SumOffsets(tbl, PKeys)

\* ------------------------------------------------------------------------
\* Under SpecPosition: the hop limit
\* ------------------------------------------------------------------------
RECURSIVE SumZTo(_, _)
\* the sum of the Z components of placements 1 .. n of the table
SumZTo(t, n) == IF n = 0 THEN 0 ELSE t[n].loc[1][3][1] + SumZTo(t, n - 1)

\* the number of placements of the table one call takes into account
Taken(t) == IF Len(t) <= HopLimit THEN Len(t) ELSE HopLimit

NonNumeric(loc) == loc = None \/ \A i \in 1..Len(loc[1]) : loc[1][i] = None

\* C23: a placement whose location coordinates are missing or non-numeric
\* resolves to unresolved: when no placement of the table has a numeric
\* coordinate, the ifcJSON resolver does not return a number.
C23_NonNumericUnresolved ==
    (wpc = "done" /\ variant = "json" /\ \A k \in PKeys : NonNumeric(tbl[k].loc)) =>
        result = None

\* ------------------------------------------------------------------------
\* Under SpecResolve: parent references that lead nowhere
\* ------------------------------------------------------------------------
\* the Z coordinate of the location of placement pl, 0 when it has none
TrueZ(pl) ==
    IF pl.loc # None /\ Len(pl.loc[1]) >= 3 /\ pl.loc[1][3] # None
    THEN pl.loc[1][3][1] ELSE 0

\* the chain that starts at key k reaches a placement whose parent
\* reference is missing, dangling or neither a string nor a mapping
EndsBadly(t, k) ==
    LET p1 == deref(t, t[k].parent)
    IN  p1 = None \/ deref(t, p1[1].parent) = None

\* the Z coordinates of the placements of that chain, summed
SumToBadParent(t, k) ==
    LET p1 == deref(t, t[k].parent)
    IN  IF p1 = None THEN TrueZ(t[k]) ELSE TrueZ(t[k]) + TrueZ(p1[1])

\* C24: a parent reference that is missing, dangling or malformed ends the
\* chain without error, and the call returns, as a resolved value, the sum
\* of the Z offsets of the placements from the starting one up to and
\* including the one with the bad parent reference.
C24_BadParentEndsChain ==
    (wpc = "done" /\ variant = "json" /\ EndsBadly(tbl, call.arg)) =>
        result = Some(SumToBadParent(tbl, call.arg))

\* ------------------------------------------------------------------------
\* Under SpecCall: vector-shaped mappings
\* ------------------------------------------------------------------------
\* the mapping has one of the keys x, X, y, Y, z, Z
VectorShaped(x) ==
    x.kind = "dict" /\ \E i \in 1..Len(x.items) : x.items[i][1] \in VectorKeys

\* none of the keys value, Value, nominalValue, NominalValue of the mapping
\* holds something that coerces to a number
NoCanonicalNumber(x) ==
    \A i \in 1..Len(x.items) :
        (\E j \in 1..Len(CanonicalKeys) : x.items[i][1] = CanonicalKeys[j])
            => as_number(x.items[i][2]) = Absent

\* C25: as_number returns absent for every mapping that has one of the
\* keys x, X, y, Y, z, Z and no canonical value key that coerces to a
\* number, a mapping with a single entry included: the single-entry rule
\* never collapses a vector-shaped mapping to a scalar.
C25_VectorAbsent ==
    (Returned("as_number") /\ VectorShaped(call.arg) /\ NoCanonicalNumber(call.arg)) =>
        call.out = Absent

\* as_number has returned absent on {"z": 7}, whose single entry coerces
\* to 7
C25_Witness ==
    /\ Returned("as_number")
    /\ call.arg.kind = "dict" /\ Len(call.arg.items) = 1
    /\ call.arg.items[1][1] = "z" /\ call.arg.items[1][2] = JInt(7)
    /\ as_number(JInt(7)) = Float(7)
    /\ call.out = Absent

\* ------------------------------------------------------------------------
\* Under SpecLink: the order of the zones decides between equals
\* ------------------------------------------------------------------------
\* the least element of a non-empty set of positions
FirstOf(S) == CHOOSE i \in S : \A j \in S : i <= j

\* the positions of the volumes that contain the point
ContainingAt(zs, p) == {i \in 1..Len(zs) : contains(zs[i].aabb[1], p)}

\* the positions of the volumes whose center is nearest to the point
NearestAt(zs, p) ==
    {i \in 1..Len(zs) :
        \A j \in 1..Len(zs) :
            Dist2(center(zs[i].aabb[1]), p) <= Dist2(center(zs[j].aabb[1]), p)}

\* the zone of a point among the volumes zs (not empty): the first that
\* contains it, else the first of those with the nearest center
ZoneByVolume(zs, p) ==
    IF ContainingAt(zs, p) # {} THEN zs[FirstOf(ContainingAt(zs, p))].gid
    ELSE zs[FirstOf(NearestAt(zs, p))].gid

\* the positions of the placements that pass the two gates of the run
PassingAt(zs, pt) ==
    {i \in 1..Len(zs) :
        /\ Abs(pt[3] - zs[i].origin[1][3]) <= run.z_tol
        /\ run.xy_max > 0 =>
              (pt[1] - zs[i].origin[1][1]) * (pt[1] - zs[i].origin[1][1])
              + (pt[2] - zs[i].origin[1][2]) * (pt[2] - zs[i].origin[1][2])
                  <= run.xy_max * run.xy_max}

\* of those, the positions at the least lateral distance
NearestPassingAt(zs, pt) ==
    {i \in PassingAt(zs, pt) :
        \A j \in PassingAt(zs, pt) :
            (pt[1] - zs[i].origin[1][1]) * (pt[1] - zs[i].origin[1][1])
            + (pt[2] - zs[i].origin[1][2]) * (pt[2] - zs[i].origin[1][2])
                <= (pt[1] - zs[j].origin[1][1]) * (pt[1] - zs[j].origin[1][1])
                   + (pt[2] - zs[j].origin[1][2]) * (pt[2] - zs[j].origin[1][2])}

\* the zones the placement-based pass selects for the candidates with
\* GlobalId e, one per candidate that has a zone within the gates
ZonesByPlacement(e) ==
    {spaces_pts(run.zones)[FirstOf(NearestPassingAt(spaces_pts(run.zones), t.origin[1]))].gid :
        t \in {terminals(run.elems)[i] :
                 i \in {j \in 1..Len(terminals(run.elems)) :
                          /\ terminals(run.elems)[j].gid[1] = e
                          /\ NearestPassingAt(spaces_pts(run.zones),
                                              terminals(run.elems)[j].origin[1]) # {}}}}

\* the spaces among S that have a node
Stored(G, S) == {z \in S : MatchNodes(G, {IfcSpace}, z) # {}}

\* C26: the zone selected is a function of the position and the ordered
\* zone list: the first zone in list order that contains the point, and
\* without one the first in list order of the zones at the least distance;
\* the edge written goes to that zone and to no other.
C26_FirstInOrder ==
    /\ (LinkDone /\ run.script \in {"from_ifc", "from_two_ifc"}
               /\ space_aabb(run.zones) # <<>>) =>
          \A i \in 1..Len(Terms) :
              (Geometric(Terms[i]) /\ ~Missing(graph, Terms[i].gid[1])) =>
                  AssignedZones(graph, Terms[i].gid[1])
                      = Stored(graph, {ZoneByVolume(space_aabb(run.zones), Terms[i].origin[1])})
    /\ (LinkDone /\ run.script = "by_placement" /\ spaces_pts(run.zones) # <<>>) =>
          \A i \in 1..Len(terminals(run.elems)) :
              ~Missing(graph, terminals(run.elems)[i].gid[1]) =>
                  AssignedZones(graph, terminals(run.elems)[i].gid[1])
                      = Stored(graph, ZonesByPlacement(terminals(run.elems)[i].gid[1]))

\* e1 lies in no volume and as far from the center of s2 as from that of
\* sp; s2 comes first in the file, and e1 is IN_SPACE s2
C26_Witness ==
    /\ LinkDone /\ run.script \in {"from_ifc", "from_two_ifc"}
    /\ Len(run.zones) = 2 /\ run.zones[1].gid = "s2" /\ run.zones[2].gid = "sp"
    /\ Len(run.elems) >= 1 /\ run.elems[1].gid = Some("e1")
    /\ run.elems[1].origin = Some(<<50, 50, 50>>)
    /\ ContainingAt(run.zones, <<50, 50, 50>>) = {}
    /\ NearestAt(run.zones, <<50, 50, 50>>) = {1, 2}
    /\ AssignedZones(graph, "e1") = {"s2"}

\* ------------------------------------------------------------------------
\* Under SpecLink: the gates of the placement-based pass
\* ------------------------------------------------------------------------
\* the squared lateral distance between two points
Lateral2(p, q) == (p[1] - q[1]) * (p[1] - q[1]) + (p[2] - q[2]) * (p[2] - q[2])

\* the space passes the Z gate and the lateral gate of the run for pt
WithinGates(z, pt) ==
    /\ Abs(pt[3] - z.origin[1][3]) <= run.z_tol
    /\ run.xy_max > 0 => Lateral2(pt, z.origin[1]) <= run.xy_max * run.xy_max

\* the spaces with a placement that pass both gates for pt
Gated(pt) ==
    {spaces_pts(run.zones)[i] :
        i \in {j \in 1..Len(spaces_pts(run.zones)) : WithinGates(spaces_pts(run.zones)[j], pt)}}

\* the candidates of the placement-based pass whose GlobalId is e
TermsOf(e) ==
    {terminals(run.elems)[i] :
        i \in {j \in 1..Len(terminals(run.elems)) : terminals(run.elems)[j].gid[1] = e}}

\* the links the pass has written for e: the zones of its statements
LinkedTo(e) == {Prog[k].sp : k \in {j \in 1..Len(Prog) : Prog[j].e = e}}

C28_NeverRaises ==
    (Returned("first") \/ Returned("g")) => call.out # Raised

\* ------------------------------------------------------------------------
\* Under SpecResolve: which coordinate a placement contributes
\* ------------------------------------------------------------------------
\* C29: what a placement adds to the running total is its Z coordinate (the
\* third entry of its coordinate list) or nothing, also when the X or Y
\* entry is null or non-numeric: a call on a placement without a usable
\* parent reference returns that placement's Z coordinate or 0.
C29_OnlyZ ==
    (wpc = "done" /\ variant = "json" /\ deref(tbl, tbl[call.arg].parent) = None) =>
        result \in {Some(0), Some(TrueZ(tbl[call.arg]))}

\* ------------------------------------------------------------------------
\* SpecRelink: zone-assignment passes, one after the other, over the same
\* files: the same spaces and the same candidate element, with the script
\* and the gates chosen anew for each pass
\* ------------------------------------------------------------------------
InitRelink ==
    /\ InitLink
    /\ Len(run.elems) <= 1

\* the previous pass has ended and another one is started on its graph
StartLinkPass ==
    /\ LinkDone
    /\ runs < MaxRuns
    /\ \E r \in LinkRuns :
          /\ r.zones = run.zones /\ r.elems = run.elems
          /\ run' = r
    /\ pc' = [p \in Procs |-> IF p = "A" THEN 1 ELSE 0]
    /\ runs' = runs + 1
    /\ prev' = [run |-> run, graph |-> graph]
    /\ report' = NoReport
    /\ UNCHANGED <<graph, aborted>>
    /\ UNCHANGED <<walkVars, call>>

NextRelink ==
    \/ LinkStep("A")
    \/ StartLinkPass

SpecRelink == InitRelink /\ [][NextRelink]_vars

\* C30: whatever zone-assignment passes have run over the same elements,
\* every element has at most one outgoing IN_SPACE edge in the graph.
C30_AtMostOneZone ==
    \A e \in {"e1", "e2"} : Cardinality(AssignedZones(graph, e)) <= 1

====
